---- MODULE Spec2Model ----
(***************************************************************************)
(* Model of the secure-proxy-gateway request path:                         *)
(*   proxy/engine.py  match_route, merge_params, clean_headers,            *)
(*                    _request_id, error_response, process_response,       *)
(*                    forward_request                                      *)
(*   main.py          proxy_entry                                          *)
(*   core/models.py   RouteConfig validators                               *)
(*                                                                         *)
(* Strings whose characters matter (URL paths) are sequences of one-       *)
(* character strings; header names and methods are strings with explicit   *)
(* lower()/upper() tables.  A Python dict is a sequence of <<key, value>>  *)
(* pairs with pairwise different keys, in insertion order.                 *)
(***************************************************************************)
EXTENDS Integers, Sequences, FiniteSets, TLC

VARIABLES
    routes,      \* config.routes of the active SystemConfig
    mr_path,     \* SpecMatch: path argument of the last match_route call
    mr_method,   \* SpecMatch: method argument of the last match_route call
    mr_result,   \* SpecMatch: <<route, has_path_match>> returned by that call
    mr_outcome,  \* SpecMatch: what proxy_entry does with that result
    query_params,  \* SpecParams: request.query_params.multi_items()
    add_params,    \* SpecParams: rules.add_params (dict)
    del_params,    \* SpecParams: rules.del_params (list)
    merged,        \* SpecParams: <<list>> returned by merge_params, <<>> before
    headers,       \* SpecHeaders: request.headers.items()
    strip_list,    \* SpecHeaders: config.proxy.strip_headers
    add_headers,   \* SpecHeaders: route.request_rules.add_headers (dict)
    cleaned,       \* SpecHeaders: <<dict>> returned by clean_headers, <<>> before
    pc,            \* Spec: where proxy_entry is for the request in hand
    request,       \* Spec: the incoming request (path, method, X-Request-Id header)
    route,         \* Spec: the route proxy_entry hands to forward_request
    request_id,    \* Spec: forward_request's local request_id
    upstream_req,  \* Spec: the request built for the upstream
    send_exc,      \* Spec: the exception build_request / client.send raised, "" if none
    upstream_resp, \* Spec: the upstream response returned by client.send
    mask_regex,    \* Spec: route.response_rules.mask_regex of the matched route
    response,      \* Spec: what proxy_entry returned, or the exception it raised
    log,           \* Spec: the log records emitted for this request
    fs,            \* config store: content of each file, Missing when absent
    write_lock,    \* config store: the thread holding _write_lock, NoWriter if free
    wpc,           \* SpecWrite: where each thread is in _atomic_write_text
    wcall,         \* SpecWrite: arguments and locals of each thread's call
    saved,         \* config store: the contents os.replace has installed, in order
    original,      \* config store: the content of the config file at the start
    saves,         \* config store: number of save calls made so far
    last_call,     \* SpecStore: the last save_config / save_config_raw call and its outcome
    reader,        \* SpecStore: what read_raw_config / load_config returned since then
    resolve,       \* SpecResolve: arguments, locals and result of resolve_config_path
    mtime,         \* SpecRuntime: st_mtime of the config file
    app_state,     \* SpecRuntime: app.state (config, config_format, config_mtime, client)
    config_reload_lock,  \* SpecRuntime: the task holding app.state.config_reload_lock
    task,          \* SpecRuntime: per request task, its position and locals
    written,       \* SpecRuntime: the writes other processes made to the config file
    now,           \* SpecClient: the event loop's clock, in seconds
    clients,       \* SpecClient: every httpx.AsyncClient created so far, by number
    closers,       \* SpecClient: the pending _close_client_later tasks
    flight,        \* SpecClient: a proxied request's use of the upstream client
    lifespan       \* SpecClient: position and local http_client of lifespan

matchVars == <<routes, mr_path, mr_method, mr_result, mr_outcome>>
paramVars == <<query_params, add_params, del_params, merged>>
headerVars == <<headers, strip_list, add_headers, cleaned>>
handlerVars ==
    <<pc, request, route, request_id, upstream_req, send_exc, upstream_resp,
      mask_regex, response, log>>
storeVars == <<fs, write_lock, wpc, wcall, saved, original, saves>>
apiVars == <<last_call, reader>>
resolveVars == <<resolve>>
requestVars == <<matchVars, paramVars, headerVars, handlerVars>>
runtimeVars == <<mtime, app_state, config_reload_lock, task, written>>
clientVars == <<now, clients, closers, flight, lifespan>>
configVars == <<storeVars, apiVars, resolveVars, runtimeVars, clientVars>>
nonWriteVars == <<requestVars, apiVars, resolveVars, runtimeVars, clientVars>>
nonStoreVars == <<requestVars, resolveVars, runtimeVars, clientVars>>
nonResolveVars == <<requestVars, storeVars, apiVars, runtimeVars, clientVars>>
nonRuntimeVars ==
    <<requestVars, apiVars, resolveVars, write_lock, wpc, wcall, saved, original, saves,
      clientVars>>
nonClientVars ==
    <<requestVars, storeVars, apiVars, resolveVars, mtime, config_reload_lock, task,
      written>>
vars == <<requestVars, configVars>>

----------------------------------------------------------------------------
(* Bounds                                                                  *)

MaxRoutes == 2          \* routes in a config
MaxRoutePathLen == 3    \* characters of a configured route path
MaxPathLen == 3         \* characters of a request URL path
MaxParams == 2          \* pairs in an incoming query string
MaxHeaders == 2         \* header lines of an incoming request
MaxBodyLen == 2         \* characters of an upstream response body
MaxSaves == 2           \* save calls in one behaviour
MaxDepth == 2           \* directories between the working directory and the root
MaxWrites == 2          \* writes other processes make to the config file

Alphabet == {"/", "a"}

----------------------------------------------------------------------------
(* Strings                                                                 *)

StringsUpTo(n) == UNION {[1..k -> Alphabet] : k \in 0..n}

\* str.startswith
startswith(s, prefix) ==
    /\ Len(prefix) <= Len(s)
    /\ SubSeq(s, 1, Len(prefix)) = prefix

\* str.rstrip("/")
RECURSIVE rstrip_slash(_)
rstrip_slash(s) ==
    IF s # <<>> /\ s[Len(s)] = "/" THEN rstrip_slash(SubSeq(s, 1, Len(s) - 1))
    ELSE s

\* str.upper on the method strings of the model
upper(m) ==
    CASE m = "get" -> "GET"
      [] m = "post" -> "POST"
      [] OTHER -> m

Max(S) == CHOOSE x \in S : \A y \in S : y <= x
Min(S) == CHOOSE x \in S : \A y \in S : x <= y

----------------------------------------------------------------------------
(* core/models.py: RouteConfig                                             *)

\* RouteConfig.ensure_leading_slash: the set of values that pass, canonicalised
ensure_leading_slash(value) ==
    LET stripped == rstrip_slash(value)
    IN  IF stripped = <<>> THEN <<"/">> ELSE stripped

RawRoutePaths == {v \in StringsUpTo(MaxRoutePathLen) : startswith(v, <<"/">>)}

\* RouteConfig.normalize_method
normalize_method(value) == upper(value)

RawRouteMethods == {"GET", "get", "post", "*"}

\* The RouteConfig values validation can produce: name is the route's position
\* in the configured list (the object identity match_route returns).
RouteConfig(name, rawPath, rawMethod) ==
    [name |-> name,
     path |-> ensure_leading_slash(rawPath),
     method |-> normalize_method(rawMethod)]

RouteValues(name) ==
    {RouteConfig(name, p, m) : p \in RawRoutePaths, m \in RawRouteMethods}

RouteLists ==
    UNION {{rs \in [1..n -> UNION {RouteValues(i) : i \in 1..n}] :
               \A i \in 1..n : rs[i].name = i} : n \in 0..MaxRoutes}

\* Python None in the route position of match_route's result
None == [name |-> 0, path |-> <<>>, method |-> ""]

----------------------------------------------------------------------------
(* proxy/engine.py: match_route                                            *)

\* the elements of a list, as a set
Elems(list) == {list[i] : i \in 1..Len(list)}

\* first element of a list that is among hits, None when there is none
\* (a for-loop over the list that returns at the first hit)
FirstWhere(list, hits) ==
    LET I == {i \in 1..Len(list) : list[i] \in hits}
    IN  IF I = {} THEN None ELSE list[Min(I)]

\* variant: keeps the candidates of minimal path length
match_route_shortest(path, method, rs) ==
    LET IsCand(r) == startswith(path, r.path)
        candidates == SelectSeq(rs, IsCand)
        min_len == Min({Len(r.path) : r \in Elems(candidates)})
        IsBest(r) == Len(r.path) = min_len
        best == SelectSeq(candidates, IsBest)
        method_upper == upper(method)
        explicit == FirstWhere(best, {r \in Elems(best) :
                        r.method # "*" /\ upper(r.method) = method_upper})
        wildcard == FirstWhere(best, {r \in Elems(best) : r.method = "*"})
    IN  IF candidates = <<>> THEN <<None, FALSE>>
        ELSE IF explicit # None THEN <<explicit, TRUE>>
        ELSE IF wildcard # None THEN <<wildcard, TRUE>>
        ELSE <<None, TRUE>>

\* variant: one loop, explicit and wildcard routes taken in configured order
match_route_first_acceptable(path, method, rs) ==
    LET IsCand(r) == startswith(path, r.path)
        candidates == SelectSeq(rs, IsCand)
        max_len == Max({Len(r.path) : r \in Elems(candidates)})
        IsBest(r) == Len(r.path) = max_len
        best == SelectSeq(candidates, IsBest)
        method_upper == upper(method)
        accepting == FirstWhere(best, {r \in Elems(best) :
                        r.method = "*" \/ upper(r.method) = method_upper})
    IN  IF candidates = <<>> THEN <<None, FALSE>>
        ELSE IF accepting # None THEN <<accepting, TRUE>>
        ELSE <<None, TRUE>>

\* variant: the longest prefix among the routes that accept the method
\* (src/proxy/engine.py, the earlier match_route)
match_route_any_prefix_method(path, method, rs) ==
    LET IsCand(r) == startswith(path, r.path)
        candidates == SelectSeq(rs, IsCand)
        method_upper == upper(method)
        Accepts(r) == r.method = "*" \/ upper(r.method) = method_upper
        accepting == SelectSeq(candidates, Accepts)
        max_len == Max({Len(r.path) : r \in Elems(accepting)})
    IN  IF candidates = <<>> THEN <<None, FALSE>>
        ELSE IF accepting = <<>> THEN <<None, TRUE>>
        ELSE <<FirstWhere(accepting, {r \in Elems(accepting) : Len(r.path) = max_len}),
               TRUE>>

\* match_route(path, method, routes) -> (route | None, has_path_match)
match_route(path, method, rs) ==
    LET IsCand(r) == startswith(path, r.path)
        candidates == SelectSeq(rs, IsCand)
        max_len == Max({Len(r.path) : r \in Elems(candidates)})
        IsBest(r) == Len(r.path) = max_len
        best == SelectSeq(candidates, IsBest)
        method_upper == upper(method)
        explicit == FirstWhere(best, {r \in Elems(best) :
                        r.method # "*" /\ upper(r.method) = method_upper})
        wildcard == FirstWhere(best, {r \in Elems(best) : r.method = "*"})
    IN  IF candidates = <<>> THEN <<None, FALSE>>
        ELSE IF explicit # None THEN <<explicit, TRUE>>
        ELSE IF wildcard # None THEN <<wildcard, TRUE>>
        ELSE <<None, TRUE>>

----------------------------------------------------------------------------
(* main.py: proxy_entry, the decision taken on match_route's result        *)

\* 404 / 405 / "forward" and the route handed to forward_request
proxy_entry_dispatch(path, method, rs) ==
    LET m == match_route(path, method, rs)
        matched == m[1]
        has_path_match == m[2]
    IN  IF ~has_path_match THEN [status |-> 404, route |-> None]
        ELSE IF matched = None THEN [status |-> 405, route |-> None]
        ELSE [status |-> 0, route |-> matched]

----------------------------------------------------------------------------
(* SpecMatch: match_route as a function of (path, method, routes)          *)

ReqPaths == {p \in StringsUpTo(MaxPathLen) : startswith(p, <<"/">>)}
ReqMethods == {"GET", "get", "POST"}


ParamsIdle ==
    /\ query_params = <<>>
    /\ add_params = <<>>
    /\ del_params = <<>>
    /\ merged = <<>>

HeadersIdle ==
    /\ headers = <<>>
    /\ strip_list = <<>>
    /\ add_headers = <<>>
    /\ cleaned = <<>>

NoValue == "<none>"

NoResponse ==
    [kind |-> "none", status |-> 0, headers |-> <<>>, body |-> <<>>,
     error |-> "", request_id |-> "", path |-> <<>>]

NoUpstream == [status |-> 0, headers |-> <<>>, body |-> <<>>, closed |-> FALSE]

HandlerIdle ==
    /\ pc = "idle"
    /\ request = [path |-> <<"/">>, method |-> "GET", x_request_id |-> NoValue]
    /\ route = None
    /\ request_id = ""
    /\ upstream_req = <<>>
    /\ send_exc = ""
    /\ upstream_resp = NoUpstream
    /\ mask_regex = <<>>
    /\ response = NoResponse
    /\ log = <<>>

\* an absent file
Missing == "<missing>"

\* str(path), str(path) + ".bak"
ConfigPath == "config.yaml"
BackupPath == "config.yaml.bak"

\* the threads that call into config_mgr, and no thread
Writers == {"w1", "w2"}
NoWriter == ""

\* tempfile.mkstemp(dir=path.parent, prefix=path.name, suffix=".tmp"): a
\* fresh name per call
TmpPaths == {"config.yaml.w1.tmp", "config.yaml.w2.tmp"}

Files == {ConfigPath, BackupPath} \cup TmpPaths

NoCall == [content |-> "", prior |-> Missing, prior_backup |-> Missing, fault |-> ""]

StoreIdle ==
    /\ fs = [f \in Files |-> Missing]
    /\ write_lock = NoWriter
    /\ wpc = [w \in Writers |-> "idle"]
    /\ wcall = [w \in Writers |-> NoCall]
    /\ saved = <<>>
    /\ original = Missing
    /\ saves = 0

\* (connect, read, write) of TimeoutConfig's defaults, and a changed read
\* timeout
DefaultTimeouts == <<5, 30, 30>>
SlowTimeouts == <<5, 60, 30>>

\* ServerConfig.admin_host's default
DefaultAdminHost == "127.0.0.1"

\* SystemConfig with the given routes (route names) and the defaults of
\* ServerConfig and ProxyConfig; NoConfig where there is none
SystemConfig(rs) ==
    [routes |-> rs, timeout |-> DefaultTimeouts, admin_host |-> DefaultAdminHost]
NoConfig ==
    [routes |-> <<"<none>">>, timeout |-> DefaultTimeouts, admin_host |-> DefaultAdminHost]

NoCallYet ==
    [op |-> "", content |-> "", fmt |-> "", config |-> NoConfig, minimal |-> FALSE,
     outcome |-> "", before |-> Missing, before_backup |-> Missing, plain_run |-> TRUE]

NoRead == [raw |-> <<>>, loaded |-> <<>>]

ApiIdle ==
    /\ last_call = NoCallYet
    /\ reader = NoRead

NoPathResult == [kind |-> "", text |-> "", dir |-> -1]

ResolveIdle ==
    resolve = [pc |-> "idle", path |-> NoValue, env |-> NoValue, cwd |-> 0,
               holders |-> {}, current |-> 0, visited |-> 0, result |-> NoPathResult]

\* the request tasks of the runtime and reload specifications, and no task
Tasks == {"t1", "t2", "t3"}
NoTask == ""

NoTaskCall ==
    [pc |-> "idle", kind |-> "", peer |-> "", content |-> "", config |-> NoConfig,
     fmt |-> "", minimal |-> FALSE, used |-> NoConfig, raw |-> "", outcome |-> "",
     start_writes |-> 0]

\* no write to the config file yet; loads and applies count the load_config
\* calls and the apply_config calls of reloads since the last write
NoWrites == [writes |-> 0, newer |-> FALSE, loads |-> 0, applies |-> 0]

RuntimeIdle ==
    /\ mtime = 0
    /\ app_state = [config |-> SystemConfig(<<>>), config_format |-> "yaml",
                    config_mtime |-> 0, http_client |-> 1,
                    http_client_sig |-> DefaultTimeouts]
    /\ config_reload_lock = NoTask
    /\ task = [t \in Tasks |-> NoTaskCall]
    /\ written = NoWrites

\* no request is using a client, and lifespan has not started
NoFlight ==
    [pc |-> "idle", matched |-> NoConfig, config |-> NoConfig, client |-> 0,
     started_at |-> 0, sent_at |-> 0, used_closed |-> FALSE]

ClientIdle ==
    /\ now = 0
    /\ clients = <<>>
    /\ closers = {}
    /\ flight = NoFlight
    /\ lifespan = [pc |-> "idle", http_client |-> 0]

ConfigIdle == StoreIdle /\ ApiIdle /\ ResolveIdle /\ RuntimeIdle /\ ClientIdle

MatchIdle ==
    /\ routes = <<>>
    /\ mr_path = <<"/">>
    /\ mr_method = "GET"
    /\ mr_result = <<>>
    /\ mr_outcome = [status |-> -1, route |-> None]

RequestIdle == MatchIdle /\ ParamsIdle /\ HeadersIdle /\ HandlerIdle

InitMatch ==
    /\ ConfigIdle
    /\ ParamsIdle
    /\ HeadersIdle
    /\ HandlerIdle
    /\ routes \in RouteLists
    /\ mr_path = <<"/">>
    /\ mr_method = "GET"
    /\ mr_result = <<>>
    /\ mr_outcome = [status |-> -1, route |-> None]

\* One call match_route(path, method, config.routes) as proxy_entry makes it
MatchRoute ==
    \E path \in ReqPaths, method \in ReqMethods :
        /\ mr_result = <<>>
        /\ mr_path' = path
        /\ mr_method' = method
        /\ mr_result' = match_route(path, method, routes)
        /\ mr_outcome' = proxy_entry_dispatch(path, method, routes)
        /\ UNCHANGED <<routes, paramVars, headerVars, handlerVars, configVars>>

NextMatch == MatchRoute

SpecMatch == InitMatch /\ [][NextMatch]_vars

Called == mr_result # <<>>

----------------------------------------------------------------------------
(* Claims about match_route, stated on the configured list itself          *)

\* positions of the configured routes whose path is a prefix of the request path
PrefixIdx == {i \in 1..Len(routes) : startswith(mr_path, routes[i].path)}

\* the longest-prefix tie set, as positions in configured order
TieIdx ==
    {i \in PrefixIdx : \A j \in PrefixIdx : Len(routes[j].path) <= Len(routes[i].path)}

\* positions in the tie set whose method equals the incoming one, ignoring case
EqualMethodIdx == {i \in TieIdx : upper(routes[i].method) = upper(mr_method)}

WildcardIdx == {i \in TieIdx : routes[i].method = "*"}

\* C1: a returned route R has a path that is a prefix of the request path, and
\* no configured route whose path is also a prefix has a strictly longer path.
C1_LongestPrefix ==
    (Called /\ mr_result[1] # None) =>
        /\ \E i \in 1..Len(routes) : routes[i] = mr_result[1]
        /\ startswith(mr_path, mr_result[1].path)
        /\ \A i \in 1..Len(routes) :
               startswith(mr_path, routes[i].path)
                   => Len(routes[i].path) <= Len(mr_result[1].path)

\* a shorter prefix route is configured before the longer one that is returned
C1_Witness ==
    /\ Called
    /\ mr_result[1] # None
    /\ \E i \in PrefixIdx :
           /\ i < mr_result[1].name
           /\ Len(routes[i].path) < Len(mr_result[1].path)
           /\ upper(routes[i].method) = upper(mr_method)

\* C2: exactly one of three outcomes: (a) no configured path is a prefix:
\* (None, False) and 404, nothing forwarded; (b) a prefix exists but no route of
\* the longest-prefix tie set has the method or "*": (None, True) and 405,
\* nothing forwarded, also when a shorter-prefix route accepts the method;
\* (c) a route is returned with has_path_match = True and the request is
\* forwarded to that route.
C2_ThreeOutcomes ==
    Called =>
        LET a == PrefixIdx = {}
            b == PrefixIdx # {} /\ EqualMethodIdx \cup WildcardIdx = {}
            isA == mr_result = <<None, FALSE>> /\ mr_outcome = [status |-> 404, route |-> None]
            isB == mr_result = <<None, TRUE>> /\ mr_outcome = [status |-> 405, route |-> None]
            isC == /\ mr_result[1] # None
                   /\ mr_result[2] = TRUE
                   /\ mr_outcome = [status |-> 0, route |-> mr_result[1]]
        IN  /\ a => (isA /\ ~isB /\ ~isC)
            /\ b => (isB /\ ~isA /\ ~isC)
            /\ (~a /\ ~b) => (isC /\ ~isA /\ ~isB)

\* 405 although a shorter-prefix route accepts the method
C2_Witness ==
    /\ Called
    /\ mr_outcome.status = 405
    /\ \E i \in PrefixIdx \ TieIdx :
           routes[i].method = "*" \/ upper(routes[i].method) = upper(mr_method)

\* C3: within the tie set the first route in configured order whose method
\* equals the incoming method ignoring case is returned if there is one, and
\* only otherwise the first route whose method is "*"; a wildcard is never
\* returned when an explicit route of the tie set accepts, whatever the order.
C3_ExplicitBeforeWildcard ==
    Called =>
        /\ EqualMethodIdx # {} => mr_result[1] = routes[Min(EqualMethodIdx)]
        /\ (EqualMethodIdx = {} /\ WildcardIdx # {})
               => mr_result[1] = routes[Min(WildcardIdx)]
        /\ (mr_result[1] # None /\ mr_result[1].method = "*") => EqualMethodIdx = {}

\* the wildcard route comes first in the configuration, the explicit one wins
C3_Witness ==
    /\ Called
    /\ EqualMethodIdx # {}
    /\ WildcardIdx # {}
    /\ Min(WildcardIdx) < Min(EqualMethodIdx)
    /\ mr_result[1] = routes[Min(EqualMethodIdx)]
    /\ mr_method = "get"

\* route path P is a prefix of the request path at a path-segment boundary
SegmentPrefix(P, path) ==
    /\ startswith(path, P)
    /\ \/ P = <<"/">>
       \/ path = P
       \/ path[Len(P) + 1] = "/"

\* C4: prefix matching respects path-segment boundaries: a route other than
\* the root is a candidate only when the request path equals its path or
\* continues with "/" right after it, so has_path_match is True exactly when
\* some configured path is a segment prefix (/api alone and /apix: (None, False)).
C4_SegmentBoundary ==
    Called =>
        /\ mr_result[2] = (\E i \in 1..Len(routes) : SegmentPrefix(routes[i].path, mr_path))
        /\ mr_result[1] # None => SegmentPrefix(mr_result[1].path, mr_path)

----------------------------------------------------------------------------
(* Python dict: a sequence of <<key, value>> pairs, keys pairwise different *)

Keys(d) == {d[i][1] : i \in 1..Len(d)}

IsDict(d) == \A i, j \in 1..Len(d) : d[i][1] = d[j][1] => i = j

\* d[key] = value: overwrite in place, or insert at the end
DictSet(d, key, value) ==
    IF key \in Keys(d)
    THEN [i \in 1..Len(d) |-> IF d[i][1] = key THEN <<key, value>> ELSE d[i]]
    ELSE Append(d, <<key, value>>)

\* dict(items) and d.update(items): DictSet for each item in order
RECURSIVE DictUpdate(_, _)
DictUpdate(d, items) ==
    IF items = <<>> THEN d
    ELSE DictUpdate(DictSet(d, Head(items)[1], Head(items)[2]), Tail(items))

\* the lists of pairwise different elements of S
StringSeqs(S) ==
    {l \in UNION {[1..k -> S] : k \in 0..Cardinality(S)} :
        \A i, j \in 1..Len(l) : l[i] = l[j] => i = j}

PairSeqsUpTo(n, K, V) == UNION {[1..k -> K \X V] : k \in 0..n}

\* the dicts with keys in K and values in V
Dicts(K, V) == {d \in PairSeqsUpTo(Cardinality(K), K, V) : IsDict(d)}

----------------------------------------------------------------------------
(* proxy/engine.py: merge_params                                           *)

ParamKeys == {"k1", "k2"}
ParamValues == {"v1", "v2"}

\* for key, value in rules.add_params.items(): if key not in del_keys: append
RECURSIVE AppendAdds(_, _, _)
AppendAdds(list, items, del_keys) ==
    IF items = <<>> THEN list
    ELSE AppendAdds(IF Head(items)[1] \notin del_keys
                    THEN Append(list, Head(items)) ELSE list,
                    Tail(items), del_keys)

\* variant: incoming pairs are not dropped for keys of add_params
merge_params_no_override(incoming_items, rules) ==
    LET del_keys == Elems(rules.del_params)
        Kept(item) == item[1] \notin del_keys
    IN  AppendAdds(SelectSeq(incoming_items, Kept), rules.add_params, del_keys)

\* merge_params(query_params, rules), query_params given by its multi_items()
merge_params(incoming_items, rules) ==
    LET del_keys == Elems(rules.del_params)
        add_keys == Keys(rules.add_params)
        Kept(item) == item[1] \notin del_keys /\ item[1] \notin add_keys
        merged0 == SelectSeq(incoming_items, Kept)
    IN  AppendAdds(merged0, rules.add_params, del_keys)

InitParams ==
    /\ ConfigIdle
    /\ MatchIdle
    /\ HeadersIdle
    /\ HandlerIdle
    /\ query_params \in PairSeqsUpTo(MaxParams, ParamKeys, ParamValues)
    /\ add_params \in Dicts(ParamKeys, ParamValues)
    /\ del_params \in StringSeqs(ParamKeys)
    /\ merged = <<>>

\* forward_request: req_params = merge_params(request.query_params, route.request_rules)
MergeParams ==
    /\ merged = <<>>
    /\ merged' = <<merge_params(query_params,
                     [add_params |-> add_params, del_params |-> del_params])>>
    /\ UNCHANGED <<query_params, add_params, del_params, matchVars, headerVars, handlerVars,
                   configVars>>

NextParams == MergeParams

SpecParams == InitParams /\ [][NextParams]_vars

Merged == merged # <<>>

\* the pairs of a list whose key is not in a set, in list order
RECURSIVE Without(_, _)
Without(list, banned) ==
    IF list = <<>> THEN <<>>
    ELSE IF Head(list)[1] \in banned THEN Without(Tail(list), banned)
    ELSE <<Head(list)>> \o Without(Tail(list), banned)

\* the values a list carries for a key, in list order
RECURSIVE ValuesOf(_, _)
ValuesOf(list, key) ==
    IF list = <<>> THEN <<>>
    ELSE IF Head(list)[1] = key THEN <<Head(list)[2]>> \o ValuesOf(Tail(list), key)
    ELSE ValuesOf(Tail(list), key)

\* C5: merge_params returns every incoming pair, in incoming order and with
\* repeated keys kept, whose key is neither deleted nor a key of add_params,
\* followed by every add_params pair whose key is not deleted; so a key in
\* both carries only the add_params value, a deleted key never appears, and
\* all other incoming multi-values are preserved.
C5_MergeParams ==
    Merged =>
        LET out == merged[1]
            del == Elems(del_params)
        IN  /\ out = Without(query_params, del \cup Keys(add_params))
                       \o Without(add_params, del)
            /\ \A k \in del : ValuesOf(out, k) = <<>>
            /\ \A k \in Keys(add_params) \ del :
                   ValuesOf(out, k) = ValuesOf(add_params, k)
            /\ \A k \in ParamKeys \ (del \cup Keys(add_params)) :
                   ValuesOf(out, k) = ValuesOf(query_params, k)

\* a repeated incoming key is overridden by the add_params value, while
\* another key of add_params is suppressed by del_params
C5_Witness ==
    /\ Merged
    /\ \E k \in Keys(add_params) \ Elems(del_params) :
          /\ Len(ValuesOf(query_params, k)) >= 2
          /\ ValuesOf(merged[1], k) = ValuesOf(add_params, k)
    /\ Keys(add_params) \cap Elems(del_params) # {}

----------------------------------------------------------------------------
(* proxy/engine.py: clean_headers                                          *)

\* str.lower on the header names of the model
lower(name) ==
    CASE name = "Host" -> "host"
      [] name = "X-A" -> "x-a"
      [] name = "X-Request-Id" -> "x-request-id"
      [] OTHER -> name

\* request.headers is a starlette Headers: names arrive lower-cased, a name
\* may repeat; configured names keep the case the configuration gives them
IncomingHeaderNames == {"host", "x-a"}
IncomingHeaderValues == {"c1", "c2"}
StripNames == {"Host", "x-a"}
AddHeaderNames == {"Host", "X-A"}
AddHeaderValues == {"s1"}

\* clean_headers(headers, strip_list, add_headers), headers given by items()
clean_headers(items, strip, add) ==
    LET blacklist == {lower(h) : h \in Elems(strip)}
        Kept(item) == lower(item[1]) \notin blacklist
        cleaned0 == DictUpdate(<<>>, SelectSeq(items, Kept))
    IN  DictUpdate(cleaned0, add)

InitHeaders ==
    /\ ConfigIdle
    /\ MatchIdle
    /\ ParamsIdle
    /\ HandlerIdle
    /\ headers \in PairSeqsUpTo(MaxHeaders, IncomingHeaderNames, IncomingHeaderValues)
    /\ strip_list \in StringSeqs(StripNames)
    /\ add_headers \in {d \in Dicts(AddHeaderNames, AddHeaderValues) : Len(d) <= MaxHeaders}
    /\ cleaned = <<>>

\* forward_request: req_headers = clean_headers(request.headers, strip_list=..., add_headers=...)
CleanHeaders ==
    /\ cleaned = <<>>
    /\ cleaned' = <<clean_headers(headers, strip_list, add_headers)>>
    /\ UNCHANGED <<headers, strip_list, add_headers, matchVars, paramVars, handlerVars,
                   configVars>>

NextHeaders == CleanHeaders

SpecHeaders == InitHeaders /\ [][NextHeaders]_vars

Cleaned == cleaned # <<>>

\* C6: the header set clean_headers produces holds no header whose lower-cased
\* name equals the lower-cased name of a strip_headers entry, also when
\* add_headers itself names such a header.
C6_NoStrippedHeader ==
    Cleaned =>
        \A i \in 1..Len(cleaned[1]) :
            lower(cleaned[1][i][1]) \notin {lower(h) : h \in Elems(strip_list)}

\* C7: for every (name, value) of add_headers the forwarded header set holds
\* name with that value and no other entry whose name equals it ignoring case.
C7_AddHeadersOverwrite ==
    Cleaned =>
        \A a \in 1..Len(add_headers) :
            /\ \E i \in 1..Len(cleaned[1]) : cleaned[1][i] = add_headers[a]
            /\ \A i \in 1..Len(cleaned[1]) :
                   lower(cleaned[1][i][1]) = lower(add_headers[a][1])
                       => cleaned[1][i] = add_headers[a]

----------------------------------------------------------------------------
(* proxy/engine.py: _request_id, error_response                            *)

\* str(uuid.uuid4())[:8]: the tokens a call can generate
Tokens == {"t1", "t2"}

\* _request_id(request): the incoming X-Request-Id if present and non-empty,
\* otherwise the freshly generated token
_request_id(req, token) ==
    IF req.x_request_id # NoValue /\ req.x_request_id # ""
    THEN req.x_request_id ELSE token

\* variant: ignores the request_id argument and calls _request_id again
error_response_regenerate(status_code, message, req, rid, token) ==
    [kind |-> "json_error", status |-> status_code,
     headers |-> DictSet(<<>>, "X-Request-Id", _request_id(req, token)),
     body |-> <<>>,
     error |-> message, request_id |-> _request_id(req, token), path |-> req.path]

\* error_response(status_code, message, request, request_id); rid = "" stands
\* for the omitted argument (None), token for the uuid a _request_id call draws
error_response(status_code, message, req, rid, token) ==
    LET id == IF rid # "" THEN rid ELSE _request_id(req, token)
    IN  [kind |-> "json_error", status |-> status_code,
         headers |-> DictSet(<<>>, "X-Request-Id", id),
         body |-> <<>>,
         error |-> message, request_id |-> id, path |-> req.path]

----------------------------------------------------------------------------
(* proxy/engine.py: forward_request, process_response                      *)

\* upstream_path of forward_request
upstream_path(path, r) ==
    LET suffix == IF startswith(path, r.path)
                  THEN SubSeq(path, Len(r.path) + 1, Len(path)) ELSE path
    IN  IF suffix = <<>> THEN <<"/">>
        ELSE IF ~startswith(suffix, <<"/">>) THEN <<"/">> \o suffix
        ELSE suffix

\* what build_request / client.send can raise, by httpx exception class
SendFaults ==
    {"ConnectError", "ConnectTimeout", "ReadTimeout", "WriteTimeout",
     "ReadError", "InvalidURL"}

\* what upstream_resp.aread() can raise while the body is buffered
ReadFaults == {"ReadTimeout", "ReadError"}

\* variant: connect timeouts taken for connection failures
IsConnectError_any_connect(exc) == exc \in {"ConnectError", "ConnectTimeout"}

\* isinstance(exc, httpx.ConnectError)
IsConnectError(exc) == exc = "ConnectError"

\* isinstance(exc, httpx.TimeoutException)
IsTimeoutException(exc) == exc \in {"ConnectTimeout", "ReadTimeout", "WriteTimeout"}

\* isinstance(exc, httpx.HTTPError)
IsHTTPError(exc) ==
    exc \in {"ConnectError", "ConnectTimeout", "ReadTimeout", "WriteTimeout", "ReadError"}

MASKABLE_CONTENT_TYPES ==
    {"application/json", "text/html", "text/xml", "text/plain", "application/xml"}

\* config.proxy.max_response_size, scaled to the Content-Length values below
max_response_size == 1

\* the upstream header values of the model
ContentTypeHeaders == {NoValue, "Text/Plain; charset=utf-8", "image/png"}
ContentLengthHeaders == {NoValue, "abc", "1", "2"}
UpstreamRequestIds == {NoValue, "up"}

\* headers.get("content-type", "").split(";")[0].strip().lower()
content_type_of(h) ==
    CASE h = NoValue -> ""
      [] h = "Text/Plain; charset=utf-8" -> "text/plain"
      [] OTHER -> h

\* int(raw_length) if raw_length else 0, ValueError giving 0
content_length_of(h) ==
    CASE h = "1" -> 1
      [] h = "2" -> 2
      [] OTHER -> 0

\* the characters of a response body: "s" is what the mask rules look for
BodyAlphabet == {"s", "x"}

\* upstream response bodies (upstream_resp.text, the chunks of aiter_raw)
Bodies == UNION {[1..k -> BodyAlphabet] : k \in 0..MaxBodyLen}

\* a body whose length agrees with a declared, parsable Content-Length
BodiesFor(cl) ==
    {b \in Bodies : content_length_of(cl) # 0 => Len(b) = content_length_of(cl)}

\* MaskRule(pattern, replacement) with a one-character literal pattern
MaskRule(pattern, replacement) == [pattern |-> pattern, replacement |-> replacement]

\* the values of route.response_rules.mask_regex in the model
MaskRuleLists ==
    {<<>>,
     <<MaskRule("s", <<"*">>)>>,
     <<MaskRule("s", <<"x", "x">>), MaskRule("x", <<"*">>)>>}

\* re.sub(pattern, replacement, content) for a one-character literal pattern:
\* every occurrence replaced, left to right
RECURSIVE re_sub(_, _, _)
re_sub(pattern, replacement, content) ==
    IF content = <<>> THEN <<>>
    ELSE (IF Head(content) = pattern THEN replacement ELSE <<Head(content)>>)
         \o re_sub(pattern, replacement, Tail(content))

\* mask_content(content, rules): the rules applied in list order
RECURSIVE mask_content(_, _)
mask_content(content, rules) ==
    IF rules = <<>> THEN content
    ELSE mask_content(re_sub(Head(rules).pattern, Head(rules).replacement, content),
                      Tail(rules))

\* httpx.Headers of a response as dict(...) gives them: lower-cased names
UpstreamHeaders(ct, cl, xr) ==
    (IF ct = NoValue THEN <<>> ELSE <<<<"content-type", ct>>>>)
    \o (IF cl = NoValue THEN <<>> ELSE <<<<"content-length", cl>>>>)
    \o (IF xr = NoValue THEN <<>> ELSE <<<<"x-request-id", xr>>>>)

\* dict.get(key, NoValue)
DictGet(d, key) ==
    IF key \in Keys(d) THEN (CHOOSE i \in 1..Len(d) : d[i][1] = key) ELSE 0

HeaderValue(d, key) == IF DictGet(d, key) = 0 THEN NoValue ELSE d[DictGet(d, key)][2]

\* headers.pop(key, None)
DictPop(d, key) ==
    LET Other(item) == item[1] # key IN SelectSeq(d, Other)

\* variant: the declared length is not looked at
streams_by_type_only(resp) ==
    content_type_of(HeaderValue(resp.headers, "content-type"))
        \notin MASKABLE_CONTENT_TYPES

\* the branch test of process_response: TRUE for the streaming branch
streams(resp) ==
    LET content_type == content_type_of(HeaderValue(resp.headers, "content-type"))
        content_length == content_length_of(HeaderValue(resp.headers, "content-length"))
    IN  \/ content_type \notin MASKABLE_CONTENT_TYPES
        \/ (content_length # 0 /\ content_length > max_response_size)

\* the record a logger call emits
LogRecord(level, message, rid, r) ==
    [level |-> level, message |-> message, request_id |-> rid, route_name |-> r.name]

Raised(exc) ==
    [kind |-> "exception", status |-> 0, headers |-> <<>>, body |-> <<>>,
     error |-> exc, request_id |-> "", path |-> <<>>]

----------------------------------------------------------------------------
(* main.py: proxy_entry, one request from acceptance to its response       *)

\* what the reload check finds on disk: no file, an mtime that is not newer,
\* a newer file holding the active config, a newer file that does not validate
DiskStates == {"missing", "unchanged", "touched", "invalid"}

HandlerMethods == {"GET", "POST"}
IncomingRequestIds == {NoValue, "", "cid"}

\* the configurations of the handler specification: at most one route
HandlerRouteLists == {rs \in RouteLists : Len(rs) <= 1}

Init ==
    /\ ConfigIdle
    /\ ParamsIdle
    /\ HeadersIdle
    /\ routes \in HandlerRouteLists
    /\ mr_path = <<"/">>
    /\ mr_method = "GET"
    /\ mr_result = <<>>
    /\ mr_outcome = [status |-> -1, route |-> None]
    /\ HandlerIdle

\* the server runtime invokes proxy_entry(request)
Accept ==
    /\ pc = "idle"
    /\ \E path \in ReqPaths, method \in HandlerMethods, rid \in IncomingRequestIds :
           request' = [path |-> path, method |-> method, x_request_id |-> rid]
    /\ pc' = "reload"
    /\ UNCHANGED <<route, request_id, upstream_req, send_exc, upstream_resp,
                   mask_regex, response, log>>
    /\ UNCHANGED <<matchVars, paramVars, headerVars, configVars>>

\* await maybe_reload_app_config(request.app): returns, or load_config raises
\* ConfigError for a newer file that does not validate
ReloadCheck ==
    /\ pc = "reload"
    /\ \E disk \in DiskStates :
           IF disk = "invalid"
           THEN /\ response' = Raised("ConfigError")
                /\ pc' = "done"
           ELSE /\ pc' = "match"
                /\ UNCHANGED response
    /\ UNCHANGED <<request, route, request_id, upstream_req, send_exc, upstream_resp,
                   mask_regex, log>>
    /\ UNCHANGED <<matchVars, paramVars, headerVars, configVars>>

\* match_route and the 404 / 405 answers; for a matched route the part of
\* forward_request up to await request.body()
MatchAndDispatch ==
    /\ pc = "match"
    /\ \E token \in Tokens, rules \in MaskRuleLists :
         LET d == proxy_entry_dispatch(request.path, request.method, routes)
         IN  IF d.status = 404
             THEN /\ response' = error_response(404, "Route Not Found", request, "", token)
                  /\ pc' = "done"
                  /\ UNCHANGED <<route, request_id, upstream_req, mask_regex>>
             ELSE IF d.status = 405
             THEN /\ response' = error_response(405, "Method Not Allowed", request, "", token)
                  /\ pc' = "done"
                  /\ UNCHANGED <<route, request_id, upstream_req, mask_regex>>
             ELSE /\ route' = d.route
                  /\ mask_regex' = rules
                  /\ request_id' = _request_id(request, token)
                  /\ upstream_req' = <<[method |-> request.method,
                                        path |-> upstream_path(request.path, d.route)]>>
                  /\ pc' = "send"
                  /\ UNCHANGED response
    /\ UNCHANGED <<request, send_exc, upstream_resp, log>>
    /\ UNCHANGED <<matchVars, paramVars, headerVars, configVars>>

\* client.build_request and await client.send(upstream_req, stream=True) with
\* the three except clauses; on success the INFO record
Send ==
    /\ pc = "send"
    /\ \/ \E exc \in SendFaults, token \in Tokens :
            /\ send_exc' = exc
            /\ pc' = "done"
            /\ UNCHANGED upstream_resp
            /\ IF IsConnectError(exc)
               THEN /\ log' = Append(log, LogRecord("WARNING", "Upstream connection failed",
                                                    request_id, route))
                    /\ response' = error_response(502, "Bad Gateway", request,
                                                  request_id, token)
               ELSE IF IsTimeoutException(exc)
               THEN /\ log' = Append(log, LogRecord("WARNING", "Upstream timeout",
                                                    request_id, route))
                    /\ response' = error_response(504, "Gateway Timeout", request,
                                                  request_id, token)
               ELSE IF IsHTTPError(exc)
               THEN /\ log' = Append(log, LogRecord("WARNING", "Upstream HTTP error",
                                                    request_id, route))
                    /\ response' = error_response(502, "Bad Gateway", request,
                                                  request_id, token)
               ELSE /\ response' = Raised(exc)
                    /\ UNCHANGED log
       \/ \E status \in {200, 404}, ct \in ContentTypeHeaders,
             cl \in ContentLengthHeaders, xr \in UpstreamRequestIds :
            \E body \in BodiesFor(cl) :
            /\ upstream_resp' = [status |-> status,
                                 headers |-> UpstreamHeaders(ct, cl, xr),
                                 body |-> body,
                                 closed |-> FALSE]
            /\ log' = Append(log, LogRecord("INFO", "Request forwarded", request_id, route))
            /\ pc' = "process"
            /\ UNCHANGED <<response, send_exc>>
    /\ UNCHANGED <<request, route, request_id, upstream_req, mask_regex>>
    /\ UNCHANGED <<matchVars, paramVars, headerVars, configVars>>

\* process_response: the StreamingResponse over aiter_raw with its background
\* task still to run, or aread / aclose / mask_content and the buffered
\* Response; aread can raise, and then the statements after it are skipped
ProcessResponse ==
    /\ pc = "process"
    /\ IF streams(upstream_resp)
       THEN /\ response' =
                 [kind |-> "streaming", status |-> upstream_resp.status,
                  headers |-> DictSet(upstream_resp.headers, "X-Request-Id", request_id),
                  body |-> upstream_resp.body,
                  error |-> "", request_id |-> "", path |-> <<>>]
            /\ pc' = "stream"
            /\ UNCHANGED upstream_resp
       ELSE \/ \E exc \in ReadFaults :
                 /\ response' = Raised(exc)
                 /\ pc' = "done"
                 /\ UNCHANGED upstream_resp
            \/ /\ upstream_resp' = [upstream_resp EXCEPT !.closed = TRUE]
               /\ response' =
                    [kind |-> "buffered", status |-> upstream_resp.status,
                     headers |-> DictSet(DictPop(upstream_resp.headers, "content-length"),
                                         "X-Request-Id", request_id),
                     body |-> mask_content(upstream_resp.body, mask_regex),
                     error |-> "", request_id |-> "", path |-> <<>>]
               /\ pc' = "done"
    /\ UNCHANGED <<request, route, request_id, upstream_req, send_exc, mask_regex, log>>
    /\ UNCHANGED <<matchVars, paramVars, headerVars, configVars>>

\* the StreamingResponse sends the whole body to the client, then its
\* background task runs upstream_resp.aclose
StreamCompleted ==
    /\ pc = "stream"
    /\ upstream_resp' = [upstream_resp EXCEPT !.closed = TRUE]
    /\ pc' = "done"
    /\ UNCHANGED <<request, route, request_id, upstream_req, send_exc, mask_regex,
                   response, log>>
    /\ UNCHANGED <<matchVars, paramVars, headerVars, configVars>>

\* the client disconnects while the body is streamed: the send is cancelled
\* and the background task runs upstream_resp.aclose
ClientAbort ==
    /\ pc = "stream"
    /\ upstream_resp' = [upstream_resp EXCEPT !.closed = TRUE]
    /\ pc' = "aborted"
    /\ UNCHANGED <<request, route, request_id, upstream_req, send_exc, mask_regex,
                   response, log>>
    /\ UNCHANGED <<matchVars, paramVars, headerVars, configVars>>

Next ==
    \/ Accept \/ ReloadCheck \/ MatchAndDispatch \/ Send \/ ProcessResponse
    \/ StreamCompleted \/ ClientAbort

Spec == Init /\ [][Next]_vars

----------------------------------------------------------------------------
(* Claims about the request handler                                        *)

Answered == response.kind \in {"json_error", "streaming", "buffered"}

\* the id this request should carry everywhere
IdChosen(id) ==
    IF request.x_request_id \notin {NoValue, ""}
    THEN id = request.x_request_id ELSE id \in Tokens

\* C8: one request id is chosen per request (the incoming X-Request-Id when
\* present and non-empty, otherwise a generated token); every response of
\* proxy_entry (streamed, buffered, 404, 405, 502, 504) carries an
\* X-Request-Id header equal to it, every log record of the request carries
\* it, and in error responses the body field request_id equals the header.
C8_RequestIdEchoed ==
    Answered =>
        LET id == HeaderValue(response.headers, "X-Request-Id")
        IN  /\ IdChosen(id)
            /\ response.kind = "json_error" => response.request_id = id
            /\ request_id # "" => id = request_id
            /\ \A i \in 1..Len(log) : log[i].request_id = id

\* a 504 for a request that sent an empty X-Request-Id: the generated token
\* is in the header, the body and the WARNING record
C8_Witness ==
    /\ response.kind = "json_error"
    /\ response.status = 504
    /\ request.x_request_id = ""
    /\ response.request_id \in Tokens
    /\ Len(log) = 1

TransportTimeouts == {"ConnectTimeout", "ReadTimeout", "WriteTimeout"}
OtherTransportErrors == {"ReadError"}

Warnings == {i \in 1..Len(log) : log[i].level = "WARNING"}

UnifiedError(status, message) ==
    /\ response.kind = "json_error"
    /\ response.status = status
    /\ response.error = message
    /\ response.request_id = request_id
    /\ response.path = request.path
    /\ HeaderValue(response.headers, "X-Request-Id") = request_id
    /\ Cardinality(Warnings) = 1
    /\ \A i \in Warnings : log[i].request_id = request_id /\ log[i].route_name = route.name

\* C9: a failure of the upstream call is answered by class: a connection
\* failure 502 "Bad Gateway", any timeout (connect, read, write) 504 "Gateway
\* Timeout", any other transport-level error 502 "Bad Gateway", each with the
\* unified error body (error, request_id, path) and one WARNING record.
C9_ErrorMapping ==
    /\ send_exc = "ConnectError" => UnifiedError(502, "Bad Gateway")
    /\ send_exc \in TransportTimeouts => UnifiedError(504, "Gateway Timeout")
    /\ send_exc \in OtherTransportErrors => UnifiedError(502, "Bad Gateway")

\* a connect timeout answered 504
C9_Witness ==
    /\ send_exc = "ConnectTimeout"
    /\ response.status = 504
    /\ response.path = request.path
    /\ Cardinality(Warnings) = 1

\* C10: no fault during the handling of a proxied request escapes the handler
\* as an exception: every finished request has a response, and a fault gives
\* 502 or 504.
C10_NoFaultEscapes ==
    pc = "done" => Answered

----------------------------------------------------------------------------
(* Claims about process_response                                           *)

Processed == response.kind \in {"streaming", "buffered"}

Pairs(d) == {d[i] : i \in 1..Len(d)}

\* the upstream declared a maskable content type
DeclaredMaskable ==
    HeaderValue(upstream_resp.headers, "content-type") = "Text/Plain; charset=utf-8"

\* the upstream declared a Content-Length above the limit
DeclaredTooLong ==
    LET raw == HeaderValue(upstream_resp.headers, "content-length")
    IN  raw \in {"1", "2"} /\ content_length_of(raw) > max_response_size

Count(c, s) == Cardinality({i \in 1..Len(s) : s[i] = c})

\* what the rule lists of the model make of a body
MaskedAs(masked, body) ==
    CASE mask_regex = <<>> -> masked = body
      [] Len(mask_regex) = 1 ->
            /\ Len(masked) = Len(body)
            /\ \A i \in 1..Len(body) :
                   masked[i] = IF body[i] = "s" THEN "*" ELSE body[i]
      [] OTHER ->
            /\ Len(masked) = Len(body) + Count("s", body)
            /\ \A i \in 1..Len(masked) : masked[i] = "*"

\* C11: process_response streams the upstream body unmodified, with all
\* upstream headers copied, exactly when the upstream content type is not
\* maskable or the declared Content-Length is above proxy.max_response_size;
\* otherwise (maskable type, Content-Length absent, unparsable or within the
\* limit) the response it returns is not streamed, has the upstream status,
\* the body with the route's mask rules applied, no upstream Content-Length
\* and every other upstream header.
C11_StreamOrMask ==
    Processed =>
        /\ response.kind = "streaming" <=> (~DeclaredMaskable \/ DeclaredTooLong)
        /\ response.status = upstream_resp.status
        /\ response.kind = "streaming" =>
              /\ response.body = upstream_resp.body
              /\ Pairs(upstream_resp.headers) \subseteq Pairs(response.headers)
        /\ response.kind = "buffered" =>
              /\ MaskedAs(response.body, upstream_resp.body)
              /\ "content-length" \notin Keys(response.headers)
              /\ \A item \in Pairs(upstream_resp.headers) :
                     item[1] # "content-length" => item \in Pairs(response.headers)

\* a maskable body behind an unparsable Content-Length, buffered and masked
C11_Witness ==
    /\ response.kind = "buffered"
    /\ HeaderValue(upstream_resp.headers, "content-length") = "abc"
    /\ HeaderValue(response.headers, "x-request-id") = "up"
    /\ Len(mask_regex) = 2
    /\ upstream_resp.body = <<"s", "x">>
    /\ response.body = <<"*", "*", "*">>

\* C35: whenever process_response has taken the buffered path, the body it
\* read from the upstream is not longer than proxy.max_response_size
C35_BufferedWithinLimit ==
    response.kind = "buffered" => Len(upstream_resp.body) <= max_response_size

\* with a Content-Length that parses, a buffered body is within the limit
DeclaredBufferedWithinLimit ==
    (/\ response.kind = "buffered"
     /\ HeaderValue(upstream_resp.headers, "content-length") \in {"1", "2"})
        => Len(upstream_resp.body) <= max_response_size

\* C12: an upstream response that client.send returned has been released
\* (aclose called) when the handling of the request has ended, on every path:
\* buffered completion, an error while the body is read, streamed completion,
\* client abort.
C12_UpstreamReleased ==
    (pc \in {"done", "aborted"} /\ upstream_resp # NoUpstream) => upstream_resp.closed

----------------------------------------------------------------------------
(* core/config_mgr.py: _atomic_write_text, step by step, for threads that  *)
(* save concurrently                                                       *)

\* a file that holds only the first part of what is being written to it
Partial == "<partial>"

\* texts handed to _atomic_write_text by save_config / save_config_raw
PlainYaml == "routes: []\n"
JsonEmpty == "{}"
YamlFullA == "server:\n  host: 127.0.0.1\nroutes:\n- name: a\n"

WriteContents == {PlainYaml, JsonEmpty}
OriginalFiles == {Missing, YamlFullA}

\* Path(str(path) + ".bak")
backup_path(path) == BackupPath

\* variant: no temporary file, the content is written to the target itself
mkstemp_in_place(path, w) == path

\* tempfile.mkstemp(dir=path.parent, prefix=path.name, suffix=".tmp") as
\* called by thread w
mkstemp(path, w) ==
    IF w = "w1" THEN "config.yaml.w1.tmp" ELSE "config.yaml.w2.tmp"

\* variant: the backup step left out
copy_backup_skipped(files, path) == files

\* if path.exists(): shutil.copy(path, backup_path)
copy_backup(files, path) ==
    IF files[path] # Missing
    THEN [files EXCEPT ![backup_path(path)] = files[path]]
    ELSE files

\* os.replace(src, dst)
os_replace(files, src, dst) ==
    IF src = dst THEN files
    ELSE [files EXCEPT ![dst] = files[src], ![src] = Missing]

InitWrite ==
    /\ RequestIdle
    /\ ResolveIdle
    /\ ApiIdle
    /\ ClientIdle
    /\ RuntimeIdle
    /\ original \in OriginalFiles
    /\ fs = [f \in Files |-> IF f = ConfigPath THEN original ELSE Missing]
    /\ write_lock = NoWriter
    /\ wpc = [w \in Writers |-> "idle"]
    /\ wcall = [w \in Writers |-> NoCall]
    /\ saved = <<>>
    /\ saves = 0

\* a thread enters _atomic_write_text(path, content); path.parent exists
AtomicWriteCall(w) ==
    /\ wpc[w] = "idle"
    /\ saves < MaxSaves
    /\ \E content \in WriteContents :
           wcall' = [wcall EXCEPT ![w] = [NoCall EXCEPT !.content = content]]
    /\ wpc' = [wpc EXCEPT ![w] = "lock"]
    /\ saves' = saves + 1
    /\ UNCHANGED <<fs, write_lock, saved, original>>
    /\ UNCHANGED nonWriteVars

\* variant: the with block is entered whether or not the lock is free
AcquireWriteLockUnguarded(w) ==
    /\ wpc[w] = "lock"
    /\ write_lock' = w
    /\ wcall' = [wcall EXCEPT ![w].prior = fs[ConfigPath],
                              ![w].prior_backup = fs[BackupPath]]
    /\ wpc' = [wpc EXCEPT ![w] = "backup"]
    /\ UNCHANGED <<fs, saved, original, saves>>
    /\ UNCHANGED nonWriteVars

\* with _write_lock: (entered)
AcquireWriteLock(w) ==
    /\ wpc[w] = "lock"
    /\ write_lock = NoWriter
    /\ write_lock' = w
    /\ wcall' = [wcall EXCEPT ![w].prior = fs[ConfigPath],
                              ![w].prior_backup = fs[BackupPath]]
    /\ wpc' = [wpc EXCEPT ![w] = "backup"]
    /\ UNCHANGED <<fs, saved, original, saves>>
    /\ UNCHANGED nonWriteVars

\* if path.exists(): shutil.copy(path, backup_path); a copy that fails leaves
\* the backup as it was or cut short
BackupCopy(w) ==
    /\ wpc[w] = "backup"
    /\ \/ /\ fs' = copy_backup(fs, ConfigPath)
          /\ wpc' = [wpc EXCEPT ![w] = "mkstemp"]
          /\ UNCHANGED wcall
       \/ /\ fs[ConfigPath] # Missing
          /\ \E left \in {fs[BackupPath], Partial} :
                 fs' = [fs EXCEPT ![BackupPath] = left]
          /\ wcall' = [wcall EXCEPT ![w].fault = "copy"]
          /\ wpc' = [wpc EXCEPT ![w] = "release"]
    /\ UNCHANGED <<write_lock, saved, original, saves>>
    /\ UNCHANGED nonWriteVars

\* fd, tmp_path = tempfile.mkstemp(...): an empty file, or OSError
Mkstemp(w) ==
    /\ wpc[w] = "mkstemp"
    /\ \/ /\ fs' = [fs EXCEPT ![mkstemp(ConfigPath, w)] = ""]
          /\ wpc' = [wpc EXCEPT ![w] = "write"]
          /\ UNCHANGED wcall
       \/ /\ wcall' = [wcall EXCEPT ![w].fault = "mkstemp"]
          /\ wpc' = [wpc EXCEPT ![w] = "release"]
          /\ UNCHANGED fs
    /\ UNCHANGED <<write_lock, saved, original, saves>>
    /\ UNCHANGED nonWriteVars

\* fh.write(content): the first part of the content reaches the file
WriteBegin(w) ==
    /\ wpc[w] = "write"
    /\ fs' = [fs EXCEPT ![mkstemp(ConfigPath, w)] = Partial]
    /\ wpc' = [wpc EXCEPT ![w] = "writing"]
    /\ UNCHANGED <<write_lock, wcall, saved, original, saves>>
    /\ UNCHANGED nonWriteVars

\* fh.write(content) and the close of the with block: the rest of the content
\* reaches the file, or OSError with the file left cut short
WriteEnd(w) ==
    /\ wpc[w] = "writing"
    /\ \/ /\ fs' = [fs EXCEPT ![mkstemp(ConfigPath, w)] = wcall[w].content]
          /\ wpc' = [wpc EXCEPT ![w] = "replace"]
          /\ UNCHANGED wcall
       \/ /\ wcall' = [wcall EXCEPT ![w].fault = "write"]
          /\ wpc' = [wpc EXCEPT ![w] = "finally"]
          /\ UNCHANGED fs
    /\ UNCHANGED <<write_lock, saved, original, saves>>
    /\ UNCHANGED nonWriteVars

\* os.replace(tmp_file, path), or OSError
Replace(w) ==
    /\ wpc[w] = "replace"
    /\ \/ /\ fs' = os_replace(fs, mkstemp(ConfigPath, w), ConfigPath)
          /\ saved' = Append(saved, wcall[w].content)
          /\ UNCHANGED wcall
       \/ /\ wcall' = [wcall EXCEPT ![w].fault = "replace"]
          /\ UNCHANGED <<fs, saved>>
    /\ wpc' = [wpc EXCEPT ![w] = "finally"]
    /\ UNCHANGED <<write_lock, original, saves>>
    /\ UNCHANGED nonWriteVars

\* finally: if tmp_file.exists(): tmp_file.unlink(missing_ok=True)
Finally(w) ==
    /\ wpc[w] = "finally"
    /\ fs' = [fs EXCEPT ![mkstemp(ConfigPath, w)] = Missing]
    /\ wpc' = [wpc EXCEPT ![w] = "release"]
    /\ UNCHANGED <<write_lock, wcall, saved, original, saves>>
    /\ UNCHANGED nonWriteVars

\* the with block is left, normally or by the exception: the lock is released
\* and the call returns or raises
ReleaseWriteLock(w) ==
    /\ wpc[w] = "release"
    /\ write_lock' = NoWriter
    /\ wpc' = [wpc EXCEPT ![w] = "idle"]
    /\ UNCHANGED <<fs, wcall, saved, original, saves>>
    /\ UNCHANGED nonWriteVars

NextWrite ==
    \/ \E w \in Writers : AtomicWriteCall(w)
    \/ \E w \in Writers : AcquireWriteLock(w)
    \/ \E w \in Writers : BackupCopy(w)
    \/ \E w \in Writers : Mkstemp(w)
    \/ \E w \in Writers : WriteBegin(w)
    \/ \E w \in Writers : WriteEnd(w)
    \/ \E w \in Writers : Replace(w)
    \/ \E w \in Writers : Finally(w)
    \/ \E w \in Writers : ReleaseWriteLock(w)

SpecWrite == InitWrite /\ [][NextWrite]_vars

----------------------------------------------------------------------------
(* Claims about _atomic_write_text                                         *)

\* the thread inside the with block, if any
InWrite(w) == wpc[w] \notin {"idle", "lock"}

\* the call of thread w has done all its file work
Finished(w) == wpc[w] = "release"

\* C13: at no step of _atomic_write_text does the target hold a partial
\* write: at every point the target holds the complete content it had when
\* the call took the lock or the complete new content (and the new content
\* only once os.replace has run); after a failed call the target holds the
\* prior content, and after any call no temporary file remains.
C13_NoPartialTarget ==
    /\ fs[ConfigPath] # Partial
    /\ fs[ConfigPath] \in {original} \cup Elems(saved)
    /\ \A w \in Writers :
          /\ InWrite(w) => fs[ConfigPath] \in {wcall[w].prior, wcall[w].content}
          /\ (InWrite(w) /\ wpc[w] \in {"backup", "mkstemp", "write", "writing", "replace"})
                => fs[ConfigPath] = wcall[w].prior
          /\ (Finished(w) /\ wcall[w].fault # "") => fs[ConfigPath] = wcall[w].prior
          /\ Finished(w) => \A t \in TmpPaths : fs[t] = Missing
    /\ write_lock = NoWriter => \A t \in TmpPaths : fs[t] = Missing

\* a write that failed part-way over an existing file: the target still has
\* the prior content, which differs from the new one, and the temporary file
\* is gone
C13_Witness ==
    \E w \in Writers :
        /\ Finished(w)
        /\ wcall[w].fault = "write"
        /\ wcall[w].prior = YamlFullA
        /\ fs[ConfigPath] = YamlFullA
        /\ wcall[w].content = PlainYaml
        /\ \A t \in TmpPaths : fs[t] = Missing

\* C14: after a successful save to a path that existed, <path>.bak holds the
\* content the target had immediately before that save; a save to a path that
\* did not exist creates no .bak; in a sequence of saves the .bak after a
\* successful save holds what the previous successful save wrote, or the
\* original file after the first one.
C14_BackupIsPrior ==
    \A w \in Writers :
        (Finished(w) /\ wcall[w].fault = "") =>
            /\ fs[ConfigPath] = wcall[w].content
            /\ wcall[w].prior # Missing => fs[BackupPath] = wcall[w].prior
            /\ wcall[w].prior = Missing =>
                  (fs[BackupPath] = wcall[w].prior_backup /\ fs[BackupPath] = Missing)
            /\ Len(saved) >= 2 => fs[BackupPath] = saved[Len(saved) - 1]
            /\ (Len(saved) = 1 /\ original # Missing) => fs[BackupPath] = original

\* the second of two successful saves, after a first save to a missing path:
\* the backup holds what the first save wrote
C14_Witness ==
    \E w \in Writers :
        /\ Finished(w)
        /\ wcall[w].fault = ""
        /\ original = Missing
        /\ saved = <<PlainYaml, JsonEmpty>>
        /\ fs[BackupPath] = PlainYaml
        /\ fs[ConfigPath] = JsonEmpty

\* what a call has done to the files when it leaves the with block is the net
\* effect _atomic_write_text computes
AtomicWriteEffect ==
    \A w \in Writers :
        (Finished(w) /\ wcall[w].fault \in {"", "write", "replace", "mkstemp"}) =>
            /\ fs[BackupPath] =
                  IF wcall[w].prior # Missing THEN wcall[w].prior ELSE wcall[w].prior_backup
            /\ fs[ConfigPath] =
                  IF wcall[w].fault = "" THEN wcall[w].content ELSE wcall[w].prior

\* both threads have made one call each, both calls have returned without
\* an error, and the path existed before
BothSaved ==
    /\ original # Missing
    /\ Len(saved) = 2
    /\ \A w \in Writers : wpc[w] = "idle" /\ wcall[w].content # "" /\ wcall[w].fault = ""

\* C33: the backup, temp-write and rename steps of two concurrent saves do
\* not interleave: only the holder of the lock is at one of them; when both
\* saves have finished, the target holds the content of the save that took
\* the lock last, <path>.bak the content of the save that took it first, and
\* no temporary file is left
C33_SavesSerialised ==
    /\ Cardinality({w \in Writers : InWrite(w)}) <= 1
    /\ \A w \in Writers : InWrite(w) => write_lock = w
    /\ BothSaved =>
          /\ fs[ConfigPath] = saved[2]
          /\ fs[BackupPath] = saved[1]
          /\ \A t \in TmpPaths : fs[t] = Missing

\* two saves of different contents over an existing file have both finished
C33_Witness ==
    /\ BothSaved
    /\ saved = <<PlainYaml, JsonEmpty>>
    /\ wcall["w2"].content = PlainYaml
    /\ wcall["w2"].prior = YamlFullA
    /\ wcall["w1"].prior = PlainYaml
    /\ fs[ConfigPath] = JsonEmpty
    /\ fs[BackupPath] = PlainYaml

\* one save waits for the lock while the other writes its temporary file
C33_Waiting ==
    /\ wpc["w1"] = "writing"
    /\ wpc["w2"] = "lock"
    /\ write_lock = "w1"

----------------------------------------------------------------------------
(* core/config_mgr.py: detect_config_format, _parse_config, load_config,   *)
(* read_raw_config, save_config, validate_config_raw, save_config_raw      *)

\* what json.loads / yaml.safe_load return, as far as SystemConfig looks at
\* it: a mapping (with or without the default-valued keys written out, with
\* its routes, with a flaw that fails validation), a list, None, or a raised
\* parse error
\* The data keeps, next to the route names, the patterns of the mask
\* rules (their length and whether re.compile accepts them), the timeouts
\* and server.admin_host.
Data(kind, full, rs, flaw) ==
    [kind |-> kind, full |-> full, routes |-> rs, flaw |-> flaw, patterns |-> <<>>,
     timeout |-> DefaultTimeouts, admin_host |-> DefaultAdminHost]
Mapping(full, rs) == Data("dict", full, rs, "")
Flawed(flaw) == Data("dict", FALSE, <<>>, flaw)
ListData == Data("list", FALSE, <<>>, "")
NoneData == Data("none", FALSE, <<>>, "")
ParseError == Data("error", FALSE, <<>>, "")

\* a pattern of a mask rule: len(pattern), and whether re.compile accepts it
Pattern(length, compiles) == [length |-> length, compiles |-> compiles]

\* route a with mask rules of the given patterns
Masked(patterns) == [Mapping(FALSE, <<"a">>) EXCEPT !.patterns = patterns]

\* the texts of the model: what json.dumps(indent=2) and yaml.safe_dump
\* produce for the configs of the model, and texts an operator may type
EmptyText == ""
YamlEmpty == "{}\n"
YamlMinA == "routes:\n- name: a\n"
YamlFull0 == "server:\n  host: 127.0.0.1\nroutes: []\n"
JsonMinA == "{\n  \"routes\": [{\"name\": \"a\"}]\n}"
JsonFull0 == "{\n  \"server\": {\"host\": \"127.0.0.1\"},\n  \"routes\": []\n}"
JsonFullA == "{\n  \"server\": {\"host\": \"127.0.0.1\"},\n  \"routes\": [{\"name\": \"a\"}]\n}"
FlowYaml == "{routes: []}"
ListText == "[]"
Unparsable == "routes: ["
SchemaViolation == "routes: 5\n"
BadRegex == "routes:\n- name: a\n  response_rules:\n    mask_regex:\n    - pattern: (\n"
LongRegex == "routes:\n- name: a\n  response_rules:\n    mask_regex:\n    - pattern: aaa...(501)\n"
CrLfYaml == "routes: []\r\n"
Regex500 == "routes:\n- name: a\n  response_rules:\n    mask_regex:\n    - pattern: aaa...(500)\n"
MixedRegex == "routes:\n- name: a\n  response_rules:\n    mask_regex:\n    - pattern: s\n    - pattern: (\n"
YamlDupA == "routes:\n- name: a\n- name: a\n"
YamlSlow0 == "proxy:\n  timeout:\n    read: 60.0\nroutes: []\n"
YamlRemoteAdmin == "server:\n  admin_host: 10.0.0.5\nroutes: []\n"
YamlLocalhostAdmin == "server:\n  admin_host: localhost\nroutes: []\n"

TextRow(text, first, json, yaml) ==
    [text |-> text, first |-> first, json |-> json, yaml |-> yaml]

\* per text: the first character of text.lstrip() ("" when there is none),
\* the result of json.loads(text) and the result of yaml.safe_load(text)
TextTable ==
    {TextRow(EmptyText, "", ParseError, NoneData),
     TextRow(JsonEmpty, "{", Mapping(FALSE, <<>>), Mapping(FALSE, <<>>)),
     TextRow(YamlEmpty, "{", Mapping(FALSE, <<>>), Mapping(FALSE, <<>>)),
     TextRow(YamlMinA, "r", ParseError, Mapping(FALSE, <<"a">>)),
     TextRow(YamlFull0, "s", ParseError, Mapping(TRUE, <<>>)),
     TextRow(YamlFullA, "s", ParseError, Mapping(TRUE, <<"a">>)),
     TextRow(JsonMinA, "{", Mapping(FALSE, <<"a">>), Mapping(FALSE, <<"a">>)),
     TextRow(JsonFull0, "{", Mapping(TRUE, <<>>), Mapping(TRUE, <<>>)),
     TextRow(JsonFullA, "{", Mapping(TRUE, <<"a">>), Mapping(TRUE, <<"a">>)),
     TextRow(FlowYaml, "{", ParseError, Mapping(FALSE, <<>>)),
     TextRow(ListText, "[", ListData, ListData),
     TextRow(Unparsable, "r", ParseError, ParseError),
     TextRow(SchemaViolation, "r", ParseError, Flawed("schema")),
     TextRow(BadRegex, "r", ParseError, Masked(<<Pattern(1, FALSE)>>)),
     TextRow(LongRegex, "r", ParseError, Masked(<<Pattern(501, TRUE)>>)),
     TextRow(Regex500, "r", ParseError, Masked(<<Pattern(500, TRUE)>>)),
     TextRow(MixedRegex, "r", ParseError, Masked(<<Pattern(1, TRUE), Pattern(1, FALSE)>>)),
     TextRow(YamlDupA, "r", ParseError, Mapping(FALSE, <<"a", "a">>)),
     TextRow(YamlSlow0, "p", ParseError,
             [Mapping(FALSE, <<>>) EXCEPT !.timeout = SlowTimeouts]),
     TextRow(YamlRemoteAdmin, "s", ParseError,
             [Mapping(FALSE, <<>>) EXCEPT !.admin_host = "10.0.0.5"]),
     TextRow(YamlLocalhostAdmin, "s", ParseError,
             [Mapping(FALSE, <<>>) EXCEPT !.admin_host = "localhost"]),
     TextRow(PlainYaml, "r", ParseError, Mapping(FALSE, <<>>)),
     TextRow(CrLfYaml, "r", ParseError, Mapping(FALSE, <<>>))}

Texts == {row.text : row \in TextTable}

Row(text) == CHOOSE row \in TextTable : row.text = text

json_loads(text) == Row(text).json
yaml_safe_load(text) == Row(text).yaml

\* detect_config_format(text)
detect_config_format(text) ==
    LET first == Row(text).first
    IN  IF first = "" THEN "yaml"
        ELSE IF first \in {"{", "["} THEN "json" ELSE "yaml"

\* path.read_text(encoding="utf-8"): text mode with universal newlines
read_text(stored) == IF stored = CrLfYaml THEN PlainYaml ELSE stored

\* _load_raw_text(path)
_load_raw_text(files, path) ==
    IF files[path] = Missing THEN "" ELSE read_text(files[path])

\* _parse_config(text, fmt): json.loads(text or "{}"), yaml.safe_load(text) or {}
_parse_config(text, fmt) ==
    IF fmt = "json"
    THEN json_loads(IF text = "" THEN JsonEmpty ELSE text)
    ELSE LET loaded == yaml_safe_load(text)
         IN  IF loaded.kind \in {"none", "list"} THEN Mapping(FALSE, <<>>) ELSE loaded

Ok(config) == [outcome |-> "ok", config |-> config]
Raise(exc) == [outcome |-> exc, config |-> NoConfig]

\* variant: no length limit
validate_pattern_unlimited(pattern) == pattern.compiles

\* MaskRule.validate_pattern: TRUE when the pattern is accepted
validate_pattern(pattern) ==
    IF pattern.length > 500 THEN FALSE ELSE pattern.compiles

\* SystemConfig.model_validate(data), ValidationError turned into ConfigError
model_validate(data) ==
    IF /\ data.kind = "dict"
       /\ data.flaw = ""
       /\ \A i \in DOMAIN data.patterns : validate_pattern(data.patterns[i])
    THEN Ok([routes |-> data.routes, timeout |-> data.timeout,
             admin_host |-> data.admin_host])
    ELSE Raise("ConfigError")

\* config.model_dump(exclude_defaults=minimal, exclude_none=minimal)
model_dump(config, minimal) ==
    [Mapping(~minimal, config.routes) EXCEPT !.timeout = config.timeout,
                                             !.admin_host = config.admin_host]

\* json.dumps(data, ensure_ascii=False, indent=2)
json_dumps(data) ==
    CASE data = Mapping(FALSE, <<>>) -> JsonEmpty
      [] data = Mapping(FALSE, <<"a">>) -> JsonMinA
      [] data = Mapping(TRUE, <<>>) -> JsonFull0
      [] data = Mapping(TRUE, <<"a">>) -> JsonFullA

\* variant: flow style
yaml_safe_dump_flow(data) ==
    IF data = Mapping(FALSE, <<>>) THEN YamlEmpty ELSE FlowYaml

\* yaml.safe_dump(data, allow_unicode=True, sort_keys=False)
yaml_safe_dump(data) ==
    CASE data = Mapping(FALSE, <<>>) -> YamlEmpty
      [] data = Mapping(FALSE, <<"a">>) -> YamlMinA
      [] data = Mapping(TRUE, <<>>) -> YamlFull0
      [] data = Mapping(TRUE, <<"a">>) -> YamlFullA

\* variant: a file that does not parse or validate loads as the default config
load_config_lenient(files, path) ==
    LET raw_text == _load_raw_text(files, path)
        data == _parse_config(raw_text, detect_config_format(raw_text))
    IN  IF data.kind = "error" \/ model_validate(data).outcome # "ok"
        THEN Ok(SystemConfig(<<>>))
        ELSE model_validate(data)

\* load_config(path)
load_config(files, path) ==
    LET raw_text == _load_raw_text(files, path)
        fmt == detect_config_format(raw_text)
        data == _parse_config(raw_text, fmt)
    IN  IF Row(raw_text).first = "" /\ files[path] = Missing
        THEN Ok(SystemConfig(<<>>))
        ELSE IF data.kind = "error" THEN Raise("ConfigError")
        ELSE model_validate(data)

\* read_raw_config(path)
read_raw_config(files, path) ==
    LET content == _load_raw_text(files, path)
    IN  <<content, detect_config_format(content)>>

\* fmt = None
NoFormat == ""

\* save_config up to the call of _atomic_write_text: the content it writes
save_config_content(files, path, config, fmt, minimal) ==
    LET used == IF fmt = NoFormat
                THEN detect_config_format(_load_raw_text(files, path)) ELSE fmt
        data == model_dump(config, minimal)
    IN  IF used = "json" THEN json_dumps(data) ELSE yaml_safe_dump(data)

\* validate_config_raw(content, fmt), and save_config_raw up to the call of
\* _atomic_write_text
validate_config_raw(content, fmt) ==
    IF fmt \notin {"yaml", "json"} THEN Raise("ValueError")
    ELSE LET data == _parse_config(content, fmt)
         IN  IF data.kind = "error" THEN Raise("ConfigError")
             ELSE model_validate(data)

\* _atomic_write_text(path, content) from entry to return: with no fault the
\* backup copy and the replace, with a fault after the backup copy (mkstemp,
\* write or replace raising) the backup copy alone
_atomic_write_text(files, path, content, fault) ==
    LET backed == copy_backup(files, path)
    IN  IF fault = "" THEN [backed EXCEPT ![path] = content] ELSE backed

StoreConfigs == {SystemConfig(<<>>), SystemConfig(<<"a">>)}

\* the texts given to save_config_raw: those whose server and proxy sections
\* hold the defaults
StoreTexts == Texts \ {YamlDupA, YamlSlow0, YamlRemoteAdmin, YamlLocalhostAdmin}
StoreOriginals == {Missing, YamlFullA, JsonFullA, MixedRegex}
SaveFormats == {NoFormat, "yaml", "json"}
RawFormats == {"yaml", "json", "toml"}
StoreFaults == {"", "write"}

InitStore ==
    /\ RequestIdle
    /\ ResolveIdle
    /\ RuntimeIdle
    /\ ApiIdle
    /\ ClientIdle
    /\ original \in StoreOriginals
    /\ fs = [f \in Files |-> IF f = ConfigPath THEN original ELSE Missing]
    /\ write_lock = NoWriter
    /\ wpc = [w \in Writers |-> "idle"]
    /\ wcall = [w \in Writers |-> NoCall]
    /\ saved = <<>>
    /\ saves = 0

\* save_config(config, path, fmt, minimal)
SaveConfig ==
    /\ saves < MaxSaves
    /\ \E config \in StoreConfigs, fmt \in SaveFormats, minimal \in BOOLEAN,
          fault \in StoreFaults :
         LET content == save_config_content(fs, ConfigPath, config, fmt, minimal)
         IN  /\ fs' = _atomic_write_text(fs, ConfigPath, content, fault)
             /\ saved' = IF fault = "" THEN Append(saved, content) ELSE saved
             /\ last_call' =
                    [op |-> "save_config", content |-> content, fmt |-> fmt,
                     config |-> config, minimal |-> minimal,
                     outcome |-> IF fault = "" THEN "ok" ELSE "OSError",
                     before |-> fs[ConfigPath], before_backup |-> fs[BackupPath],
                     plain_run |-> last_call.plain_run /\ fmt = NoFormat]
    /\ saves' = saves + 1
    /\ reader' = NoRead
    /\ UNCHANGED <<write_lock, wpc, wcall, original>>
    /\ UNCHANGED nonStoreVars

\* save_config_raw(content, fmt, path)
SaveConfigRaw ==
    /\ saves < MaxSaves
    /\ \E content \in StoreTexts, fmt \in RawFormats, fault \in StoreFaults :
         LET cfg == validate_config_raw(content, fmt)
             call == [op |-> "save_config_raw", content |-> content, fmt |-> fmt,
                      config |-> cfg.config, minimal |-> FALSE,
                      outcome |-> cfg.outcome,
                      before |-> fs[ConfigPath], before_backup |-> fs[BackupPath],
                      plain_run |-> FALSE]
         IN  IF cfg.outcome # "ok"
             THEN /\ fault = ""
                  /\ last_call' = call
                  /\ UNCHANGED <<fs, saved>>
             ELSE /\ fs' = _atomic_write_text(fs, ConfigPath, content, fault)
                  /\ saved' = IF fault = "" THEN Append(saved, content) ELSE saved
                  /\ last_call' =
                        [call EXCEPT !.outcome = IF fault = "" THEN "ok" ELSE "OSError"]
    /\ saves' = saves + 1
    /\ reader' = NoRead
    /\ UNCHANGED <<write_lock, wpc, wcall, original>>
    /\ UNCHANGED nonStoreVars

\* read_raw_config(path)
ReadRawConfig ==
    /\ reader.raw = <<>>
    /\ reader' = [reader EXCEPT !.raw = read_raw_config(fs, ConfigPath)]
    /\ UNCHANGED <<storeVars, last_call>>
    /\ UNCHANGED nonStoreVars

\* load_config(path)
LoadConfig ==
    /\ reader.loaded = <<>>
    /\ reader' = [reader EXCEPT !.loaded = <<load_config(fs, ConfigPath)>>]
    /\ UNCHANGED <<storeVars, last_call>>
    /\ UNCHANGED nonStoreVars

NextStore == SaveConfig \/ SaveConfigRaw \/ ReadRawConfig \/ LoadConfig

SpecStore == InitStore /\ [][NextStore]_vars

----------------------------------------------------------------------------
(* Claims about the config store                                           *)

RawSaveRejected ==
    last_call.op = "save_config_raw" /\ last_call.outcome \notin {"ok", "OSError"}

\* C15: save_config_raw parses and validates before it touches the
\* filesystem: for content that does not parse in the given format, violates
\* the schema, holds an invalid or over-long regex, or for an unknown format,
\* the call fails with ConfigError and the target and the .bak file are as
\* before the call.
C15_RejectedRawSave ==
    RawSaveRejected =>
        /\ last_call.outcome = "ConfigError"
        /\ fs[ConfigPath] = last_call.before
        /\ fs[BackupPath] = last_call.before_backup

RawSaveAccepted == last_call.op = "save_config_raw" /\ last_call.outcome = "ok"

\* C16: after save_config_raw accepted text r with format f, read_raw_config
\* on the path returns (r, f) and load_config on the path returns the config
\* save_config_raw returned.
C16_RawRoundTrip ==
    RawSaveAccepted =>
        /\ reader.raw # <<>> => reader.raw = <<last_call.content, last_call.fmt>>
        /\ reader.loaded # <<>> => reader.loaded = <<Ok(last_call.config)>>

StructuredSaveDone == last_call.op = "save_config" /\ last_call.outcome = "ok"

\* C17: for every valid SystemConfig c, existing or missing path, format
\* (yaml, json or the detected one) and value of minimal, load_config after
\* save_config(c) returns a config equal to c.
C17_StructuredRoundTrip ==
    (StructuredSaveDone /\ reader.loaded # <<>>) =>
        reader.loaded = <<Ok(last_call.config)>>

\* the default config saved minimal as YAML over a JSON file, and loaded back
C17_Witness ==
    /\ StructuredSaveDone
    /\ last_call.fmt = "yaml"
    /\ last_call.minimal
    /\ last_call.before = JsonFullA
    /\ fs[ConfigPath] = YamlEmpty
    /\ reader.loaded = <<Ok(SystemConfig(<<>>))>>

\* C18: after any sequence of save_config calls without a format override,
\* for any configs and any minimal flag, an existing file is detected as the
\* format it was detected as before the sequence.
C18_FormatPreserved ==
    (last_call.plain_run /\ original # Missing) =>
        detect_config_format(_load_raw_text(fs, ConfigPath))
            = detect_config_format(read_text(original))

----------------------------------------------------------------------------
(* core/config_mgr.py: _find_config_upwards, resolve_config_path           *)

\* the path argument: None, or a text
PathArgs == {NoValue, "conf/app.yaml", "./app.yaml"}

\* Path(text): pathlib's normal form of the text
Path(text) == IF text = "./app.yaml" THEN "app.yaml" ELSE text

\* os.getenv(ENV_CONFIG_PATH): unset, or a text
EnvValues == {NoValue, "", "  ", "/etc/spg.yaml", " /etc/spg.yaml "}

\* str.strip on the texts of the model
strip(text) ==
    CASE text = "  " -> ""
      [] text = " /etc/spg.yaml " -> "/etc/spg.yaml"
      [] OTHER -> text

\* variant: the environment value taken as it is
env_path_unstripped(env) == IF env = NoValue THEN "" ELSE env

\* env_path = (os.getenv(ENV_CONFIG_PATH) or "").strip()
env_path(env) == strip(IF env = NoValue THEN "" ELSE env)

\* The working directory is Depth levels below the filesystem root; a
\* directory on the way up is named by its level, the root is level 0.
Levels(cwd) == 0..cwd

\* current.parent
parent(current) == IF current = 0 THEN 0 ELSE current - 1

ArgResult(text) == [kind |-> "arg", text |-> text, dir |-> -1]
EnvResult(text) == [kind |-> "env", text |-> text, dir |-> -1]
\* <directory at level dir>/config.yaml
InDirectory(dir) == [kind |-> "dir", text |-> "config.yaml", dir |-> dir]

InitResolve ==
    /\ RequestIdle
    /\ StoreIdle
    /\ ApiIdle
    /\ ClientIdle
    /\ RuntimeIdle
    /\ \E path \in PathArgs, env \in EnvValues, cwd \in 0..MaxDepth :
         \E holders \in SUBSET Levels(cwd) :
           resolve = [pc |-> "idle", path |-> path, env |-> env, cwd |-> cwd,
                      holders |-> holders, current |-> cwd, visited |-> 0,
                      result |-> NoPathResult]

\* resolve_config_path up to the call of _find_config_upwards
ResolveConfigPath ==
    /\ resolve.pc = "idle"
    /\ resolve' =
         IF resolve.path # NoValue
         THEN [resolve EXCEPT !.pc = "done", !.result = ArgResult(Path(resolve.path))]
         ELSE IF env_path(resolve.env) # ""
         THEN [resolve EXCEPT !.pc = "done",
                              !.result = EnvResult(Path(env_path(resolve.env)))]
         ELSE [resolve EXCEPT !.pc = "walk", !.current = resolve.cwd]
    /\ UNCHANGED nonResolveVars

\* one iteration of the loop of _find_config_upwards, and for the iteration
\* that returns, the rest of resolve_config_path
FindConfigUpwards ==
    /\ resolve.pc = "walk"
    /\ resolve' =
         IF resolve.current \in resolve.holders
         THEN [resolve EXCEPT !.pc = "done", !.visited = @ + 1,
                              !.result = InDirectory(resolve.current)]
         ELSE IF parent(resolve.current) = resolve.current
         THEN [resolve EXCEPT !.pc = "done", !.visited = @ + 1,
                              !.result = InDirectory(resolve.cwd)]
         ELSE [resolve EXCEPT !.current = parent(resolve.current), !.visited = @ + 1]
    /\ UNCHANGED nonResolveVars

NextResolve == ResolveConfigPath \/ FindConfigUpwards

SpecResolve == InitResolve /\ [][NextResolve]_vars

----------------------------------------------------------------------------
(* Claims about resolve_config_path                                        *)

Resolved == resolve.pc = "done"

\* the search part of the precedence: the nearest directory holding
\* config.yaml, else the working directory; never more iterations than there
\* are directories from the working directory to the root
SearchResult ==
    /\ resolve.result =
          IF resolve.holders # {} THEN InDirectory(Max(resolve.holders))
          ELSE InDirectory(resolve.cwd)

SearchTerminates ==
    /\ resolve.visited <= resolve.cwd + 1
    /\ resolve.current \in Levels(resolve.cwd)
    /\ resolve.pc = "walk" => resolve.visited = resolve.cwd - resolve.current

\* C19 as stated: an explicit path is returned as it is (as a Path);
\* otherwise a set, non-empty SPG_CONFIG_PATH is used; otherwise the nearest
\* config.yaml from the working directory upwards; otherwise
\* <cwd>/config.yaml; the search ends at the root.
C19_Precedence ==
    /\ SearchTerminates
    /\ Resolved =>
          IF resolve.path # NoValue
          THEN resolve.result = ArgResult(Path(resolve.path))
          ELSE IF resolve.env \notin {NoValue, ""}
          THEN resolve.result.kind = "env"
          ELSE SearchResult

\* C19 amended: an explicit path is returned as Path(path); otherwise, when
\* SPG_CONFIG_PATH is set and not blank, its value with surrounding
\* whitespace stripped is used; otherwise the nearest config.yaml from the
\* working directory upwards; otherwise <cwd>/config.yaml; the search ends at
\* the root.
C19_PrecedenceStripped ==
    /\ SearchTerminates
    /\ Resolved =>
          IF resolve.path # NoValue
          THEN resolve.result = ArgResult(Path(resolve.path))
          ELSE IF resolve.env \in {"/etc/spg.yaml", " /etc/spg.yaml "}
          THEN resolve.result = EnvResult("/etc/spg.yaml")
          ELSE SearchResult

\* a blank SPG_CONFIG_PATH and config.yaml in two ancestors: the nearer one
\* is returned, found on the second iteration
C19_Witness ==
    /\ Resolved
    /\ resolve.path = NoValue
    /\ resolve.env = "  "
    /\ resolve.cwd = 2
    /\ resolve.holders = {0, 1}
    /\ resolve.result = InDirectory(1)
    /\ resolve.visited = 2

----------------------------------------------------------------------------
(* core/runtime.py, main.py and web/routers.py: the hot reload of the       *)
(* config file and the admin endpoints.  Request tasks run on one event     *)
(* loop and yield only at an await that suspends; other processes write     *)
(* the config file at any time.                                             *)

\* what other processes leave in the config file
WrittenTexts == {PlainYaml, YamlMinA, JsonMinA, Unparsable, BadRegex, YamlDupA}

\* the config file when the gateway starts: load_config in lifespan accepted it
RuntimeOriginals == {Missing, PlainYaml}

\* config_path.stat().st_mtime if config_path.exists() else 0.0
stat_or_zero(files, mt) == IF files[ConfigPath] = Missing THEN 0 ELSE mt

_proxy_timeout_signature(config) == config.timeout

init_runtime_state(files, mt, config, fmt, http_client) ==
    [config |-> config, config_format |-> fmt, config_mtime |-> stat_or_zero(files, mt),
     http_client |-> http_client, http_client_sig |-> _proxy_timeout_signature(config)]

\* variant: apply_config that never rebuilds the client
apply_config_keep_client(st, config, fmt, files, mt) ==
    [st EXCEPT !.config_format = fmt,
               !.config = config,
               !.config_mtime = stat_or_zero(files, mt)]

\* apply_config with fmt given; files and mt are the disk when it runs
apply_config(st, config, fmt, files, mt) ==
    LET applied == [st EXCEPT !.config_format = fmt,
                              !.config = config,
                              !.config_mtime = stat_or_zero(files, mt)]
        new_sig == _proxy_timeout_signature(config)
    IN  IF st.http_client_sig = new_sig
        THEN applied
        ELSE [applied EXCEPT !.http_client = st.http_client + 1,
                             !.http_client_sig = new_sig]

\* the two checks of maybe_reload_app_config: no file, or an mtime that is
\* not greater than app.state.config_mtime, and it returns
reload_not_needed(files, mt, st) ==
    \/ files[ConfigPath] = Missing
    \/ mt <= st.config_mtime

\* request.client.host: no client, an empty host, IP addresses and names
Peers == {NoValue, "", "127.0.0.1", "127.0.0.2", "::1", "10.0.0.5", "LocalHost", "gateway"}

\* server.admin_host of the configs of the model
AdminHosts == {DefaultAdminHost, "10.0.0.5", "localhost"}

\* per host: whether ipaddress.ip_address(host) accepts it, is_loopback of
\* the address, and host.lower()
HostRow(host, is_ip, is_loopback, lowered) ==
    [host |-> host, is_ip |-> is_ip, is_loopback |-> is_loopback, lowered |-> lowered]

HostTable ==
    {HostRow("", FALSE, FALSE, ""),
     HostRow("127.0.0.1", TRUE, TRUE, "127.0.0.1"),
     HostRow("127.0.0.2", TRUE, TRUE, "127.0.0.2"),
     HostRow("::1", TRUE, TRUE, "::1"),
     HostRow("10.0.0.5", TRUE, FALSE, "10.0.0.5"),
     HostRow("localhost", FALSE, FALSE, "localhost"),
     HostRow("LocalHost", FALSE, FALSE, "localhost"),
     HostRow("gateway", FALSE, FALSE, "gateway")}

Host(host) == CHOOSE row \in HostTable : row.host = host

\* variant: an address is loopback when it is an IP address
_is_loopback_any_ip(host) ==
    IF Host(host).is_ip THEN TRUE ELSE Host(host).lowered = "localhost"

\* _is_loopback(host)
_is_loopback(host) ==
    IF Host(host).is_ip THEN Host(host).is_loopback ELSE Host(host).lowered = "localhost"

\* _ensure_admin_access(request): TRUE when it returns, FALSE when it raises
\* HTTPException(403)
_ensure_admin_access(client_host, admin_host) ==
    IF client_host \in {NoValue, ""} THEN FALSE
    ELSE IF client_host = admin_host THEN TRUE
    ELSE IF _is_loopback(client_host) /\ _is_loopback(admin_host) THEN TRUE
    ELSE FALSE

\* the handlers: proxy_entry, health_check and the endpoints of web/routers.py;
\* update_config and validate_config by the kind of payload
AdminKinds ==
    {"ui", "get_config", "post_raw", "post_structured", "validate_raw",
     "validate_structured"}
TaskKinds == {"proxy", "get_config", "post_raw", "post_structured"}

\* payload["content"], payload["format"], the structured payload and the
\* X-Config-Minimal header of the requests of the model
PostTexts == {YamlMinA, FlowYaml, YamlDupA, BadRegex}
FormatHints == {NoValue, "yaml", " JSON ", "toml"}
PostPayloads == {Mapping(FALSE, <<>>), Mapping(FALSE, <<"a">>), Flawed("schema")}
MinimalHeaders == {NoValue, "true"}

\* (payload.get("format") or "").strip().lower()
format_hint(hint) ==
    CASE hint = NoValue -> ""
      [] hint = " JSON " -> "json"
      [] OTHER -> hint

\* (request.headers.get("X-Config-Minimal") or "").strip() in {"1", "true", "yes", "on"}
minimal_of(header) == header = "true"

NoInput == [content |-> "", hint |-> NoValue, payload |-> NoneData, minimal |-> NoValue]

\* the inputs a request of the kind carries
InputsOf(kind) ==
    CASE kind \in {"post_raw", "validate_raw"} ->
             {[NoInput EXCEPT !.content = c, !.hint = h] : c \in PostTexts, h \in FormatHints}
      [] kind = "post_structured" ->
             {[NoInput EXCEPT !.payload = p, !.minimal = m] :
                  p \in PostPayloads, m \in MinimalHeaders}
      [] kind = "validate_structured" ->
             {[NoInput EXCEPT !.payload = p] : p \in PostPayloads}
      [] OTHER -> {NoInput}

\* lifespan: load_config, read_raw_config, init_runtime_state
InitRuntime ==
    /\ RequestIdle
    /\ ResolveIdle
    /\ ApiIdle
    /\ ClientIdle
    /\ \E text \in RuntimeOriginals :
           /\ fs = [f \in Files |-> IF f = ConfigPath THEN text ELSE Missing]
           /\ mtime = IF text = Missing THEN 0 ELSE 1
    /\ write_lock = NoWriter
    /\ wpc = [w \in Writers |-> "idle"]
    /\ wcall = [w \in Writers |-> NoCall]
    /\ saved = <<>>
    /\ original = Missing
    /\ saves = 0
    /\ app_state = init_runtime_state(fs, mtime, load_config(fs, ConfigPath).config,
                                      read_raw_config(fs, ConfigPath)[2], 1)
    /\ config_reload_lock = NoTask
    /\ task = [t \in Tasks |-> NoTaskCall]
    /\ written = NoWrites

\* the handler returns or raises: its locals are gone, the record keeps what
\* it answered
finished(call, outcome) ==
    [NoTaskCall EXCEPT !.pc = "done", !.kind = call.kind, !.peer = call.peer,
                       !.outcome = outcome, !.start_writes = call.start_writes]

\* maybe_reload_app_config returns without suspending the task: proxy_entry
\* goes on to line 46, the config the request is matched against;
\* get_current_config goes on to await read_raw_config in the thread pool
reloaded(call, config) ==
    IF call.kind = "proxy"
    THEN [finished(call, "ok") EXCEPT !.used = config]
    ELSE [call EXCEPT !.pc = "respond"]

\* a handler from its invocation to its first await that suspends, or to
\* its return
handler_entry(call, input, files, mt, st) ==
    IF call.kind \in AdminKinds /\ ~_ensure_admin_access(call.peer, st.config.admin_host)
    THEN finished(call, "403")
    ELSE CASE call.kind \in {"proxy", "get_config"} ->
                  IF reload_not_needed(files, mt, st)
                  THEN reloaded(call, st.config)
                  ELSE [call EXCEPT !.pc = "lock"]
           [] call.kind \in {"post_raw", "validate_raw"} ->
                  [call EXCEPT !.pc = IF call.kind = "post_raw"
                                      THEN "post_save" ELSE "validate",
                               !.content = input.content,
                               !.fmt = IF format_hint(input.hint) # ""
                                       THEN format_hint(input.hint)
                                       ELSE detect_config_format(input.content)]
           [] call.kind = "post_structured" ->
                  LET new_config == model_validate(input.payload)
                  IN  IF new_config.outcome # "ok"
                      THEN finished(call, "400")
                      ELSE [call EXCEPT !.pc = "post_save",
                                        !.config = new_config.config,
                                        !.fmt = st.config_format,
                                        !.minimal = minimal_of(input.minimal)]
           [] call.kind = "validate_structured" ->
                  finished(call, IF model_validate(input.payload).outcome = "ok"
                                 THEN "ok" ELSE "400")
           [] OTHER -> finished(call, "ok")

\* the saves of update_config that are under way
PendingSaves == Cardinality({t \in Tasks : task[t].pc = "post_save"})

\* another process replaces the config file; newer records that the file now
\* validates and that its mtime is greater than app.state.config_mtime
ExternalWrite ==
    /\ written.writes + PendingSaves < MaxWrites
    /\ \E text \in WrittenTexts :
           /\ fs' = [fs EXCEPT ![ConfigPath] = text]
           /\ mtime' = mtime + 1
           /\ written' = [NoWrites EXCEPT
                             !.writes = written.writes + 1,
                             !.newer = /\ load_config(fs', ConfigPath).outcome = "ok"
                                       /\ mtime' > app_state.config_mtime]
    /\ UNCHANGED <<app_state, config_reload_lock, task>>
    /\ UNCHANGED nonRuntimeVars

\* a handler is invoked by a loopback peer
HandlerEntry(t) ==
    /\ task[t].pc = "idle"
    /\ \E kind \in TaskKinds :
         /\ kind \in {"post_raw", "post_structured"}
                => written.writes + PendingSaves < MaxWrites
         /\ \E input \in InputsOf(kind) :
              LET call == [task[t] EXCEPT !.kind = kind, !.peer = DefaultAdminHost,
                                          !.start_writes = written.writes]
              IN  task' = [task EXCEPT ![t] = handler_entry(call, input, fs, mtime, app_state)]
    /\ UNCHANGED <<fs, mtime, app_state, config_reload_lock, written>>
    /\ UNCHANGED nonRuntimeVars

\* variant: the lock is taken without the second check
AcquireReloadLockNoRecheck(t) ==
    /\ task[t].pc = "lock"
    /\ config_reload_lock = NoTask
    /\ task' = [task EXCEPT ![t].pc = "load"]
    /\ config_reload_lock' = t
    /\ UNCHANGED <<fs, mtime, app_state, written>>
    /\ UNCHANGED nonRuntimeVars

\* async with app.state.config_reload_lock and the second check
AcquireReloadLock(t) ==
    /\ task[t].pc = "lock"
    /\ config_reload_lock = NoTask
    /\ IF reload_not_needed(fs, mtime, app_state)
       THEN /\ task' = [task EXCEPT ![t] = reloaded(task[t], app_state.config)]
            /\ UNCHANGED config_reload_lock
       ELSE /\ task' = [task EXCEPT ![t].pc = "load"]
            /\ config_reload_lock' = t
    /\ UNCHANGED <<fs, mtime, app_state, written>>
    /\ UNCHANGED nonRuntimeVars

\* await run_in_threadpool(load_config, config_path); ConfigError leaves
\* the with block and ends the request
ReloadLoadConfig(t) ==
    /\ task[t].pc = "load"
    /\ LET loaded == load_config(fs, ConfigPath)
       IN  IF loaded.outcome = "ok"
           THEN /\ task' = [task EXCEPT ![t].pc = "read_raw", ![t].config = loaded.config]
                /\ UNCHANGED config_reload_lock
           ELSE /\ task' = [task EXCEPT ![t] = finished(task[t], loaded.outcome)]
                /\ config_reload_lock' = NoTask
    /\ written' = [written EXCEPT !.loads = @ + 1]
    /\ UNCHANGED <<fs, mtime, app_state>>
    /\ UNCHANGED nonRuntimeVars

\* _, fmt = await run_in_threadpool(read_raw_config, config_path)
ReloadReadRaw(t) ==
    /\ task[t].pc = "read_raw"
    /\ task' = [task EXCEPT ![t].pc = "apply",
                            ![t].fmt = read_raw_config(fs, ConfigPath)[2]]
    /\ UNCHANGED <<fs, mtime, app_state, config_reload_lock, written>>
    /\ UNCHANGED nonRuntimeVars

\* await apply_config(app, config, fmt) and the end of the with block:
\* neither suspends the task
ReloadApply(t) ==
    /\ task[t].pc = "apply"
    /\ app_state' = apply_config(app_state, task[t].config, task[t].fmt, fs, mtime)
    /\ config_reload_lock' = NoTask
    /\ task' = [task EXCEPT ![t] = reloaded(task[t], app_state'.config)]
    /\ written' = [written EXCEPT !.applies = @ + 1]
    /\ UNCHANGED <<fs, mtime>>
    /\ UNCHANGED nonRuntimeVars

\* get_current_config after read_raw_config returned: the response holds
\* app.state.config and the raw text
GetConfigRespond(t) ==
    /\ task[t].pc = "respond"
    /\ task' = [task EXCEPT ![t] = [finished(task[t], "ok") EXCEPT
                                        !.used = app_state.config,
                                        !.raw = read_raw_config(fs, ConfigPath)[1]]]
    /\ UNCHANGED <<fs, mtime, app_state, config_reload_lock, written>>
    /\ UNCHANGED nonRuntimeVars

\* update_config: await run_in_threadpool(save_config_raw, content, fmt,
\* config_path) or await run_in_threadpool(save_config, new_config,
\* config_path, fmt, minimal), and except Exception: HTTPException(400)
PostSave(t) ==
    /\ task[t].pc = "post_save"
    /\ LET call == task[t]
           cfg == IF call.kind = "post_raw"
                  THEN validate_config_raw(call.content, call.fmt)
                  ELSE Ok(call.config)
           content == IF call.kind = "post_raw"
                      THEN call.content
                      ELSE save_config_content(fs, ConfigPath, call.config, call.fmt,
                                               call.minimal)
       IN  IF cfg.outcome # "ok"
           THEN /\ task' = [task EXCEPT ![t] = finished(call, "400")]
                /\ UNCHANGED <<fs, mtime, written>>
           ELSE \E fault \in StoreFaults :
                  /\ fs' = _atomic_write_text(fs, ConfigPath, content, fault)
                  /\ IF fault = ""
                     THEN /\ task' = [task EXCEPT ![t].pc = "post_apply",
                                                  ![t].config = cfg.config,
                                                  ![t].content = content]
                          /\ mtime' = mtime + 1
                          /\ written' = [NoWrites EXCEPT !.writes = written.writes + 1]
                     ELSE /\ task' = [task EXCEPT ![t] = finished(call, "400")]
                          /\ UNCHANGED <<mtime, written>>
    /\ UNCHANGED <<app_state, config_reload_lock>>
    /\ UNCHANGED nonRuntimeVars

\* update_config: await apply_config(request.app, new_config, fmt) and the
\* return
PostApply(t) ==
    /\ task[t].pc = "post_apply"
    /\ app_state' = apply_config(app_state, task[t].config, task[t].fmt, fs, mtime)
    /\ task' = [task EXCEPT ![t] = [finished(task[t], "ok") EXCEPT
                                        !.used = task[t].config,
                                        !.raw = task[t].content]]
    /\ UNCHANGED <<fs, mtime, config_reload_lock, written>>
    /\ UNCHANGED nonRuntimeVars

\* the tasks of the runtime specification
RuntimeTasks == {"t1", "t2"}

NextRuntime ==
    \/ ExternalWrite
    \/ \E t \in RuntimeTasks : HandlerEntry(t)
    \/ \E t \in RuntimeTasks : AcquireReloadLock(t)
    \/ \E t \in RuntimeTasks : ReloadLoadConfig(t)
    \/ \E t \in RuntimeTasks : ReloadReadRaw(t)
    \/ \E t \in RuntimeTasks : ReloadApply(t)
    \/ \E t \in RuntimeTasks : GetConfigRespond(t)
    \/ \E t \in RuntimeTasks : PostSave(t)
    \/ \E t \in RuntimeTasks : PostApply(t)

SpecRuntime == InitRuntime /\ [][NextRuntime]_vars

\* the request of task t was matched (or GET /api/config answered), and it
\* began after the last write
MatchedAfterLastWrite(t) ==
    /\ task[t].pc = "done"
    /\ task[t].outcome = "ok"
    /\ task[t].start_writes = written.writes

\* C20: when the config file was replaced by a valid config with an mtime
\* greater than state.config_mtime, a proxied request (or GET /api/config)
\* that begins after the replacement is matched against (answers with) the
\* routes of that config, and the config and its mtime are installed in the
\* application state
C20_NextRequestSeesFile ==
    \A t \in Tasks :
        (MatchedAfterLastWrite(t) /\ written.newer)
            => /\ task[t].used = load_config(fs, ConfigPath).config
               /\ app_state.config = load_config(fs, ConfigPath).config
               /\ app_state.config_mtime = mtime

\* the reload lock is held exactly by a task between its second check and
\* the end of the with block
ReloadLockHeld ==
    \A t \in Tasks :
        (config_reload_lock = t) <=> (task[t].pc \in {"load", "read_raw", "apply"})

\* a request that meets no write from its start to its match sees the file
ReloadWithoutRace ==
    \A t \in Tasks :
        (MatchedAfterLastWrite(t) /\ written.newer /\ written.writes = 1)
            => task[t].used = load_config(fs, ConfigPath).config

\* C34: whenever app.state.config_mtime is not less than the mtime of the
\* config file, app.state.config is the config that load_config returns
\* for the file as it is
C34_WatermarkNotAhead ==
    (/\ fs[ConfigPath] # Missing
     /\ load_config(fs, ConfigPath).outcome = "ok"
     /\ app_state.config_mtime >= mtime)
        => app_state.config = load_config(fs, ConfigPath).config

\* as long as no write lands while a reload or a POST is between its read or
\* write of the file and its apply_config, the watermark is right: here for
\* runs with one write
WatermarkAfterOneWrite ==
    written.writes <= 1 => C34_WatermarkNotAhead

\* texts that do not parse, or that SystemConfig does not validate
FailsToLoad(text) ==
    text \in {Unparsable, SchemaViolation, BadRegex, LongRegex, MixedRegex}

\* task t takes the step that ends its load_config call
LoadReturns(t) == task[t].pc = "load" /\ task'[t].pc # "load"

\* C21: when the reload finds a config file that does not parse or validate,
\* the step in which load_config fails leaves config, config_format,
\* config_mtime, http_client and http_client_sig as they were, releases
\* config_reload_lock and ends the request with ConfigError
C21_FailedReloadKeepsState ==
    [][\A t \in Tasks :
          (LoadReturns(t) /\ FailsToLoad(fs[ConfigPath]))
              => /\ app_state' = app_state
                 /\ config_reload_lock' = NoTask
                 /\ task'[t].outcome = "ConfigError"]_vars

\* a reload has failed on a file with an invalid regex: the lock is free and
\* the state is that of startup, behind the file
C21_Witness ==
    /\ fs[ConfigPath] = BadRegex
    /\ task["t1"].outcome = "ConfigError"
    /\ config_reload_lock = NoTask
    /\ app_state.config = SystemConfig(<<>>)
    /\ app_state.config_mtime < mtime

\* C22: while the config file holds an invalid config, every proxied request
\* that begins after the edit proceeds to route matching and is matched
\* against the active routes
C22_BadEditStillServes ==
    \A t \in Tasks :
        (/\ task[t].kind = "proxy"
         /\ task[t].pc = "done"
         /\ task[t].start_writes = written.writes
         /\ FailsToLoad(fs[ConfigPath]))
            => /\ task[t].outcome = "ok"
               /\ task[t].used = app_state.config

\* task t is between starting to produce a new config and the end of
\* apply_config
Producing(t) == task[t].pc \in {"load", "read_raw", "apply", "post_save", "post_apply"}

\* C23: at most one task is between starting to produce a new config and
\* finishing apply_config, and that task holds config_reload_lock
C23_SingleWriter ==
    /\ Cardinality({t \in Tasks : Producing(t)}) <= 1
    /\ \A t \in Tasks : Producing(t) => config_reload_lock = t

\* task t, running update_config, takes a step
PostStep(t) == task[t].kind \in {"post_raw", "post_structured"} /\ task'[t] # task[t]

\* the config load_config returns for a file that holds the content
ParsedFromFile(content) ==
    load_config([fs EXCEPT ![ConfigPath] = content], ConfigPath)

\* update_config changes the state only after its write, and then once
PostAppliesAfterWrite ==
    [][\A t \in Tasks :
          (PostStep(t) /\ app_state' # app_state) => task[t].pc = "post_apply"]_vars

\* update_config answering 400 leaves the config file and the state alone
PostRejectedKeepsAll ==
    [][\A t \in Tasks :
          (PostStep(t) /\ task'[t].outcome = "400")
              => /\ fs'[ConfigPath] = fs[ConfigPath]
                 /\ app_state' = app_state]_vars

\* C24: POST /api/config replaces state.config only after its write
\* succeeded, answers 400 without changing the config file or the state when
\* validation or the write fails, and on success state.config is the config
\* parsed from the content it wrote to the file
C24_ValidatePersistApply ==
    [][\A t \in Tasks :
          PostStep(t) =>
              /\ app_state' # app_state => task[t].pc = "post_apply"
              /\ task'[t].outcome = "400"
                     => /\ fs'[ConfigPath] = fs[ConfigPath]
                        /\ app_state' = app_state
              /\ task'[t].outcome = "ok"
                     => /\ ParsedFromFile(task[t].content).outcome = "ok"
                        /\ app_state'.config = ParsedFromFile(task[t].content).config]_vars

\* no two routes of the list have the same name
UniqueNames(rs) == \A i, j \in DOMAIN rs : rs[i] = rs[j] => i = j

\* C26: in every reachable state the route names of the active config are
\* unique
C26_ActiveConfigValid == UniqueNames(app_state.config.routes)

\* texts with a mask rule whose pattern is longer than 500 characters or
\* does not compile
HasBadPattern(text) == text \in {BadRegex, LongRegex, MixedRegex}

\* C27: a config with a mask rule whose pattern is longer than 500
\* characters or does not compile, alone or next to a valid rule, is rejected
\* as a whole: save_config_raw fails and writes nothing, load_config fails;
\* a pattern of exactly 500 characters that compiles is accepted
C27_BadMaskRuleRejected ==
    /\ (last_call.op = "save_config_raw" /\ HasBadPattern(last_call.content))
           => /\ last_call.outcome \notin {"ok", "OSError"}
              /\ last_call.config = NoConfig
              /\ fs[ConfigPath] = last_call.before
    /\ (reader.loaded # <<>> /\ HasBadPattern(fs[ConfigPath]))
           => reader.loaded = <<Raise("ConfigError")>>
    /\ (/\ last_call.op = "save_config_raw"
        /\ last_call.content = Regex500
        /\ last_call.fmt = "yaml")
           => /\ last_call.outcome \in {"ok", "OSError"}
              /\ last_call.outcome = "ok" => fs[ConfigPath] = Regex500

\* a 500 character pattern was saved, then a 501 character pattern was
\* rejected and the file still holds the first
C27_Witness ==
    /\ saved = <<Regex500>>
    /\ last_call.op = "save_config_raw"
    /\ last_call.content = LongRegex
    /\ last_call.fmt = "yaml"
    /\ last_call.outcome = "ConfigError"
    /\ fs[ConfigPath] = Regex500

\* a file with one valid and one invalid mask rule was refused by load_config
C27_LoadRefused ==
    /\ fs[ConfigPath] = MixedRegex
    /\ reader.loaded = <<Raise("ConfigError")>>

----------------------------------------------------------------------------
(* web/routers.py and main.py: the access check of the admin endpoints.    *)
(* One request of any endpoint from any peer, against a gateway started    *)
(* with one of three admin hosts.                                          *)

\* the config file at startup: none, admin_host 10.0.0.5, admin_host localhost
AdminOriginals == {Missing, YamlRemoteAdmin, YamlLocalhostAdmin}

\* the endpoints of the gateway outside proxy_entry
EndpointKinds == AdminKinds \cup {"healthz"}

\* the task that serves the request
AdminTasks == {"t1"}

InitAdmin ==
    /\ RequestIdle
    /\ ResolveIdle
    /\ ApiIdle
    /\ ClientIdle
    /\ \E text \in AdminOriginals :
           /\ fs = [f \in Files |-> IF f = ConfigPath THEN text ELSE Missing]
           /\ mtime = IF text = Missing THEN 0 ELSE 1
    /\ write_lock = NoWriter
    /\ wpc = [w \in Writers |-> "idle"]
    /\ wcall = [w \in Writers |-> NoCall]
    /\ saved = <<>>
    /\ original = Missing
    /\ saves = 0
    /\ app_state = init_runtime_state(fs, mtime, load_config(fs, ConfigPath).config,
                                      read_raw_config(fs, ConfigPath)[2], 1)
    /\ config_reload_lock = NoTask
    /\ task = [t \in Tasks |-> NoTaskCall]
    /\ written = NoWrites

\* an endpoint is invoked by a peer
AdminEntry(t) ==
    /\ task[t].pc = "idle"
    /\ \E kind \in EndpointKinds, peer \in Peers :
         \E input \in InputsOf(kind) :
              LET call == [task[t] EXCEPT !.kind = kind, !.peer = peer,
                                          !.start_writes = written.writes]
              IN  task' = [task EXCEPT ![t] = handler_entry(call, input, fs, mtime, app_state)]
    /\ UNCHANGED <<fs, mtime, app_state, config_reload_lock, written>>
    /\ UNCHANGED nonRuntimeVars

\* validate_config: await run_in_threadpool(validate_config_raw, content, fmt)
\* and except Exception: HTTPException(400)
ValidateRespond(t) ==
    /\ task[t].pc = "validate"
    /\ task' = [task EXCEPT ![t] =
                    finished(task[t],
                             IF validate_config_raw(task[t].content, task[t].fmt).outcome = "ok"
                             THEN "ok" ELSE "400")]
    /\ UNCHANGED <<fs, mtime, app_state, config_reload_lock, written>>
    /\ UNCHANGED nonRuntimeVars

NextAdmin ==
    \/ \E t \in AdminTasks : AdminEntry(t)
    \/ \E t \in AdminTasks : GetConfigRespond(t)
    \/ \E t \in AdminTasks : PostSave(t)
    \/ \E t \in AdminTasks : PostApply(t)
    \/ \E t \in AdminTasks : ValidateRespond(t)

SpecAdmin == InitAdmin /\ [][NextAdmin]_vars

\* the loopback addresses and the name localhost (host names compare without
\* regard to case)
IsLoopbackPeer(host) == host \in {"127.0.0.1", "127.0.0.2", "::1", "localhost", "LocalHost"}

\* the peer may use the admin endpoints of a gateway with this admin host
AdminAllowed(peer, admin_host) ==
    /\ peer \notin {NoValue, ""}
    /\ \/ peer = admin_host
       \/ IsLoopbackPeer(peer) /\ IsLoopbackPeer(admin_host)

\* task t takes the first step of a handler
EntryStep(t) == task[t].pc = "idle" /\ task'[t].pc # "idle"

\* C25: every admin endpoint goes on only for a peer that equals the active
\* admin_host or is loopback together with it; for any other peer, a missing
\* one included, it answers 403 in its first step and the file and the state
\* are untouched; /healthz answers without the check
C25_AdminAccess ==
    [][\A t \in Tasks :
          EntryStep(t) =>
              /\ (/\ task'[t].kind \in AdminKinds
                  /\ ~AdminAllowed(task'[t].peer, app_state.config.admin_host))
                     => /\ task'[t].pc = "done"
                        /\ task'[t].outcome = "403"
                        /\ fs' = fs
                        /\ app_state' = app_state
              /\ (/\ task'[t].kind \in AdminKinds
                  /\ AdminAllowed(task'[t].peer, app_state.config.admin_host))
                     => task'[t].outcome # "403"
              /\ task'[t].kind = "healthz" => task'[t].outcome = "ok"]_vars

\* the outcome 403 is final: the handler has returned
RefusedIsDone == \A t \in Tasks : task[t].outcome = "403" => task[t].pc = "done"

\* a POST from 10.0.0.5 to a gateway whose admin host is localhost was refused
\* and the file is as it was
C25_Witness ==
    /\ task["t1"].kind = "post_raw"
    /\ task["t1"].peer = "10.0.0.5"
    /\ task["t1"].outcome = "403"
    /\ app_state.config.admin_host = "localhost"
    /\ fs[ConfigPath] = YamlLocalhostAdmin

\* a POST from ::1 to a gateway whose admin host is localhost was applied
C25_LoopbackAccepted ==
    /\ task["t1"].kind = "post_raw"
    /\ task["t1"].peer = "::1"
    /\ task["t1"].outcome = "ok"
    /\ fs[ConfigPath] = YamlMinA
    /\ app_state.config = SystemConfig(<<"a">>)

----------------------------------------------------------------------------
(* SpecClient: the life of the upstream client: lifespan creates and closes *)
(* one, apply_config replaces it when the timeouts change,                 *)
(* _close_client_later closes the replaced one, forward_request uses the   *)
(* one it read from app.state                                              *)

MaxClients == 3     \* clients created in one run
MaxTime == 6        \* seconds the clock runs

\* _close_client_later's delay_s
delay_s == 5

\* a config whose read timeout differs from the default
SlowConfig(rs) == [SystemConfig(rs) EXCEPT !.timeout = SlowTimeouts]

\* the configs that lifespan loads and that reloads and POSTs apply
ClientConfigs == {SystemConfig(<<>>), SystemConfig(<<"a">>), SlowConfig(<<>>)}

\* httpx.AsyncClient(timeout=httpx.Timeout(connect, read, write, pool=read))
create_http_client(config) == [timeout |-> config.timeout, closed |-> FALSE]

\* client.aclose()
aclose(cs, c) == [cs EXCEPT ![c].closed = TRUE]

\* the read timeout of a client
read_timeout(client) == client.timeout[2]

\* lifespan up to its yield
InitClient ==
    /\ RequestIdle
    /\ StoreIdle
    /\ ApiIdle
    /\ ResolveIdle
    /\ mtime = 0
    /\ config_reload_lock = NoTask
    /\ task = [t \in Tasks |-> NoTaskCall]
    /\ written = NoWrites
    /\ now = 0
    /\ closers = {}
    /\ flight = NoFlight
    /\ \E config \in ClientConfigs :
           /\ clients = <<create_http_client(config)>>
           /\ app_state = init_runtime_state(fs, mtime, config, "yaml", 1)
    /\ lifespan = [pc |-> "running", http_client |-> 1]

\* apply_config as a reload or a POST calls it with a validated config;
\* create_task(_close_client_later(old_client)) starts the sleep at once
ApplyConfig(config) ==
    /\ lifespan.pc = "running"
    /\ config # app_state.config
    /\ LET st == apply_config(app_state, config, app_state.config_format, fs, mtime)
           rebuilt == st.http_client # app_state.http_client
       IN  /\ rebuilt => Len(clients) < MaxClients /\ now + delay_s <= MaxTime
           /\ app_state' = st
           /\ clients' = IF rebuilt THEN Append(clients, create_http_client(config))
                         ELSE clients
           /\ closers' = IF rebuilt
                         THEN closers \cup {[client |-> app_state.http_client,
                                             due |-> now + delay_s]}
                         ELSE closers
    /\ UNCHANGED <<nonClientVars, now, flight, lifespan>>

\* a second passes; a sleep that is over wakes before the next one, and a
\* send that got no response within the read timeout does not go on
Tick ==
    /\ lifespan.pc = "running"
    /\ now < MaxTime
    /\ \A k \in closers : k.due > now
    /\ flight.pc = "sending" =>
           now - flight.sent_at < read_timeout(clients[flight.client])
    /\ now' = now + 1
    /\ UNCHANGED <<nonClientVars, app_state, clients, closers, flight, lifespan>>

\* _close_client_later after its sleep: client.aclose()
CloseClientLater ==
    /\ lifespan.pc = "running"
    /\ \E k \in closers :
           /\ k.due <= now
           /\ clients' = aclose(clients, k.client)
           /\ closers' = closers \ {k}
    /\ UNCHANGED <<nonClientVars, app_state, now, flight, lifespan>>

\* variant: process_response is given app.state.config as it is by then
reread_config(fl, st) == st.config

\* the config forward_request passes to process_response: its local
captured_config(fl, st) == fl.config

\* proxy_entry after the reload check reads app.state.config and matches the
\* route; forward_request reads app.state.http_client and app.state.config
\* and awaits request.body()
FlightStart ==
    /\ lifespan.pc = "running"
    /\ flight.pc \in {"idle", "done"}
    /\ flight' = [flight EXCEPT !.pc = "body", !.matched = app_state.config,
                                !.config = app_state.config,
                                !.client = app_state.http_client,
                                !.started_at = now]
    /\ UNCHANGED <<nonClientVars, app_state, now, clients, closers, lifespan>>

\* the request is over: its times are of no use any more
over(fl) == [fl EXCEPT !.pc = "done", !.started_at = 0, !.sent_at = 0]

\* client.build_request and the start of client.send
FlightSend ==
    /\ lifespan.pc = "running"
    /\ flight.pc = "body"
    /\ flight' = IF clients[flight.client].closed
                 THEN [over(flight) EXCEPT !.used_closed = TRUE]
                 ELSE [flight EXCEPT !.pc = "sending", !.sent_at = now]
    /\ UNCHANGED <<nonClientVars, app_state, now, clients, closers, lifespan>>

\* client.send returns the response, or fails on a client closed under it
FlightResponse ==
    /\ lifespan.pc = "running"
    /\ flight.pc = "sending"
    /\ flight' = IF clients[flight.client].closed
                 THEN [over(flight) EXCEPT !.used_closed = TRUE]
                 ELSE [flight EXCEPT !.pc = "reading"]
    /\ UNCHANGED <<nonClientVars, app_state, now, clients, closers, lifespan>>

\* process_response reads the response body and closes the response
FlightRead ==
    /\ lifespan.pc = "running"
    /\ flight.pc = "reading"
    /\ flight' = [over(flight) EXCEPT
                     !.config = captured_config(flight, app_state),
                     !.used_closed = @ \/ clients[flight.client].closed]
    /\ UNCHANGED <<nonClientVars, app_state, now, clients, closers, lifespan>>

\* lifespan after its yield, once the server has no request left:
\* http_client.aclose() on the client lifespan created; the event loop
\* stops, the sleeping _close_client_later tasks with it
Shutdown ==
    /\ lifespan.pc = "running"
    /\ flight.pc \in {"idle", "done"}
    /\ clients' = aclose(clients, lifespan.http_client)
    /\ lifespan' = [lifespan EXCEPT !.pc = "exited"]
    /\ UNCHANGED <<nonClientVars, app_state, now, closers, flight>>

NextClient ==
    \/ \E config \in ClientConfigs : ApplyConfig(config)
    \/ Tick
    \/ CloseClientLater
    \/ FlightStart
    \/ FlightSend
    \/ FlightResponse
    \/ FlightRead
    \/ Shutdown

SpecClient == InitClient /\ [][NextClient]_vars

\* the event loop runs its timers: the clock goes on and a sleep that is
\* over wakes, for as long as the loop runs
SpecClientFair == SpecClient /\ WF_vars(Tick) /\ WF_vars(CloseClientLater)

\* C28: when lifespan has exited, the client installed in app.state is
\* closed, also when the client was rebuilt since startup
C28_InstalledClientClosed ==
    lifespan.pc = "exited" => clients[app_state.http_client].closed

\* lifespan closes the client it created
StartupClientClosed ==
    lifespan.pc = "exited" => clients[lifespan.http_client].closed

\* C29: no request sends on a client, waits for its response or reads the
\* response body from it after the client has been closed
C29_NoUseAfterClose ==
    /\ ~flight.used_closed
    /\ flight.pc \in {"sending", "reading"} => ~clients[flight.client].closed

\* for delay_s seconds after a request read the client from app.state, the
\* client is open
ShortFlightUndisturbed ==
    (flight.pc \in {"body", "sending", "reading"} /\ now - flight.started_at < delay_s)
        => ~clients[flight.client].closed

\* the request has read its config and client and is not over
InProgress == flight.pc \in {"body", "sending", "reading"}

\* C32: a request in progress matched its route against the config it takes
\* its policy from, its client was built with the timeouts of that config,
\* and no step changes the config or the client it uses, whatever is
\* applied meanwhile
C32_OneConfigVersion ==
    /\ [](InProgress =>
            /\ flight.config = flight.matched
            /\ clients[flight.client].timeout = _proxy_timeout_signature(flight.config))
    /\ [][InProgress =>
            /\ flight'.matched = flight.matched
            /\ flight'.config = flight.config
            /\ flight'.client = flight.client]_vars

\* the request reads its response after another config and another client
\* were installed, and it uses the ones it had read
C32_Witness ==
    /\ flight.pc = "reading"
    /\ ~clients[flight.client].closed
    /\ flight.config = flight.matched
    /\ flight.config # app_state.config
    /\ flight.client # app_state.http_client

\* the clients that were installed once and are not any more
Replaced(c) == c \in 1..Len(clients) /\ c # app_state.http_client

IsClosed(c) == c \in 1..Len(clients) /\ clients[c].closed

\* a step that changes app.state keeps the client when the new config has
\* the timeouts of the signature, and otherwise installs a new client built
\* from the config, updates the signature and schedules the old client
RebuildStep ==
    app_state' # app_state =>
        LET new_sig == _proxy_timeout_signature(app_state'.config)
            old_client == app_state.http_client
            new_client == app_state'.http_client
        IN  IF app_state.http_client_sig = new_sig
            THEN /\ new_client = old_client
                 /\ app_state'.http_client_sig = new_sig
                 /\ clients' = clients
                 /\ closers' = closers
            ELSE /\ new_client \notin 1..Len(clients)
                 /\ new_client \in 1..Len(clients')
                 /\ clients'[new_client] = [timeout |-> new_sig, closed |-> FALSE]
                 /\ app_state'.http_client_sig = new_sig
                 /\ \E k \in closers' \ closers : k.client = old_client

\* while the gateway runs: the signature is the timeout triple of the
\* config, the installed client was built with it and is neither closed
\* nor scheduled for closure
InstalledClientValid ==
    lifespan.pc = "running" =>
        /\ app_state.http_client_sig = _proxy_timeout_signature(app_state.config)
        /\ app_state.http_client \in 1..Len(clients)
        /\ clients[app_state.http_client].timeout = app_state.http_client_sig
        /\ ~clients[app_state.http_client].closed
        /\ \A k \in closers : k.client # app_state.http_client

\* C30 as stated: the rebuild policy, the invariants of the installed
\* client, and every replaced client is closed in the end
C30_EveryReplacedClosed ==
    /\ [][RebuildStep]_vars
    /\ []InstalledClientValid
    /\ \A c \in 1..MaxClients : Replaced(c) ~> IsClosed(c)

\* C30: the rebuild policy, the invariants of the installed client, and
\* every replaced client is closed in the end unless lifespan exits first
C30_RebuildPolicy ==
    /\ [][RebuildStep]_vars
    /\ []InstalledClientValid
    /\ \A c \in 1..MaxClients : Replaced(c) ~> (IsClosed(c) \/ lifespan.pc = "exited")

\* a rebuilt client is installed and the replaced one was closed by its task
C30_Witness ==
    /\ lifespan.pc = "running"
    /\ app_state.http_client = 2
    /\ clients[1].closed
    /\ closers = {}

----------------------------------------------------------------------------
(* SpecReload: maybe_reload_app_config run by three requests at once       *)
(* while other processes write the config file                             *)

\* the handler whose calls of maybe_reload_app_config are followed
ReloadKinds == {"proxy"}

\* lifespan, as in the runtime specification
InitReload == InitRuntime

\* proxy_entry is invoked
ReloadEntry(t) ==
    /\ task[t].pc = "idle"
    /\ \E kind \in ReloadKinds :
         LET call == [task[t] EXCEPT !.kind = kind, !.peer = DefaultAdminHost,
                                     !.start_writes = written.writes]
         IN  task' = [task EXCEPT ![t] = handler_entry(call, NoInput, fs, mtime, app_state)]
    /\ UNCHANGED <<fs, mtime, app_state, config_reload_lock, written>>
    /\ UNCHANGED nonRuntimeVars

\* the changes of the config file in one run of the reload specification
MaxChanges == 1

\* what another process writes: a valid config, or one with an invalid regex
ChangedTexts == {YamlMinA, BadRegex}

\* another process replaces the config file
FileChange ==
    /\ written.writes < MaxChanges
    /\ \E text \in ChangedTexts :
           /\ fs' = [fs EXCEPT ![ConfigPath] = text]
           /\ mtime' = mtime + 1
           /\ written' = [NoWrites EXCEPT
                             !.writes = written.writes + 1,
                             !.newer = /\ load_config(fs', ConfigPath).outcome = "ok"
                                       /\ mtime' > app_state.config_mtime]
    /\ UNCHANGED <<app_state, config_reload_lock, task>>
    /\ UNCHANGED nonRuntimeVars

\* the steps of task t inside maybe_reload_app_config
ReloadProgress(t) ==
    \/ AcquireReloadLock(t)
    \/ ReloadLoadConfig(t)
    \/ ReloadReadRaw(t)
    \/ ReloadApply(t)

NextReload ==
    \/ FileChange
    \/ \E t \in Tasks : ReloadEntry(t)
    \/ \E t \in Tasks : AcquireReloadLock(t)
    \/ \E t \in Tasks : ReloadLoadConfig(t)
    \/ \E t \in Tasks : ReloadReadRaw(t)
    \/ \E t \in Tasks : ReloadApply(t)

SpecReload == InitReload /\ [][NextReload]_vars

\* the event loop resumes a task whose await is over: the thread pool
\* returns, and asyncio.Lock wakes a waiter when the lock is released
SpecReloadFair == SpecReload /\ \A t \in Tasks : WF_vars(ReloadProgress(t))

\* the config file was written once since startup, and it validates
OneValidChange ==
    /\ written.writes = 1
    /\ load_config(fs, ConfigPath).outcome = "ok"

\* task t is inside maybe_reload_app_config
InReloadCheck(t) == task[t].pc \in {"lock", "load", "read_raw", "apply"}

\* task t returns from maybe_reload_app_config without having loaded
ReturnsUnloaded(t) ==
    /\ task[t].pc \in {"idle", "lock"}
    /\ task'[t].pc \in {"done", "respond"}
    /\ task'[t].outcome # "403"

\* C31: after one change of the file to a valid config, load_config and
\* apply_config are executed at most once by all the requests together;
\* a request that returns from the check without loading does so because
\* the mtime is not greater than config_mtime; every request leaves the
\* reload check
C31_ReloadOnce ==
    /\ [](OneValidChange => written.loads <= 1 /\ written.applies <= 1)
    /\ [][\A t \in Tasks :
            ReturnsUnloaded(t) => reload_not_needed(fs, mtime, app_state)]_vars
    /\ \A t \in Tasks : InReloadCheck(t) ~> ~InReloadCheck(t)

\* one request has loaded and applied the changed file while the two others
\* wait for the lock, having passed the first check before
C31_Witness ==
    /\ OneValidChange
    /\ written.loads = 1
    /\ written.applies = 1
    /\ task["t1"].pc = "done"
    /\ task["t2"].pc = "lock"
    /\ task["t3"].pc = "lock"
    /\ config_reload_lock = NoTask
    /\ app_state.config = load_config(fs, ConfigPath).config
    /\ app_state.config # SystemConfig(<<>>)

\* all three requests are through, matched against the config of the file
C31_AllReturned ==
    /\ OneValidChange
    /\ written.loads = 1
    /\ written.applies = 1
    /\ \A t \in Tasks : /\ task[t].pc = "done"
                        /\ task[t].kind = "proxy"
                        /\ task[t].start_writes = 1
                        /\ task[t].used = load_config(fs, ConfigPath).config

====
